---- MODULE Spec2Model ----
(***************************************************************************)
(* Model of praystar/Disaster_Model: the relief allocation engine          *)
(* (relief_supply_manager.py), the location cache (location_analyzer.py)   *)
(* and the disaster deduplicator (disaster_deduplicator.py).               *)
(*                                                                         *)
(* Python numbers are modelled as exact rationals [n, d] in lowest terms;  *)
(* a Python dict is a function whose DOMAIN is its key set; a raised       *)
(* exception is a result record whose status names the exception.          *)
(***************************************************************************)
EXTENDS Integers, Sequences, FiniteSets, TLC

(***************************************************************************)
(* Bounds of the model.                                                    *)
(***************************************************************************)
\* longest disaster_list built from the event pool
MaxEvents == 2
\* geocoder calls made in the lifetime of one LocationAnalyzer
MaxGeoCalls == 2
\* longest candidate list handed to determine_primary_location
MaxCandidates == 2
\* most rows in the DataFrame handed to combine_duplicate_disasters
MaxReports == 3
\* longest disaster_list of events with tied scores
MaxTiedEvents == 6
\* most pass-1 events in the list handed to _merge_disaster_data
MaxMerged == 3

(***************************************************************************)
(* State.                                                                  *)
(***************************************************************************)
VARIABLES
    \* ReliefSupplyManager and its caller
    buffer_percentage,  \* self.buffer_percentage
    current_supplies,   \* self.current_supplies
    disaster_list,      \* the caller's disaster_list
    allocations,        \* what the last allocate_supplies call returned or raised
    \* LocationAnalyzer and its callers
    location_cache,     \* self.location_cache
    geo_calls,          \* per query string, the outcomes of its geocode() calls
    last,               \* the last call: operation, arguments, result, events
    \* DisasterDeduplicator and its caller
    results_df,         \* the caller's DataFrame of reports, as its rows
    dedup,              \* what combine_duplicate_disasters(results_df) returned or raised
    disasters_to_merge, \* the pass-1 events of one pass-2 group
    merged_disaster     \* what _merge_disaster_data(disasters_to_merge) returned

allocVars == <<buffer_percentage, current_supplies, disaster_list, allocations>>
geoVars == <<location_cache, geo_calls, last>>
mergeVars == <<disasters_to_merge, merged_disaster>>
dedupVars == <<results_df, dedup, mergeVars>>
vars == <<allocVars, geoVars, dedupVars>>

(***************************************************************************)
(* Exact rational arithmetic.                                              *)
(***************************************************************************)
Abs(x) == IF x < 0 THEN -x ELSE x

RECURSIVE Gcd(_, _)
Gcd(a, b) == IF b = 0 THEN a ELSE Gcd(b, a % b)

\* the rational n/d (d # 0) in lowest terms with a positive denominator
Rat(n, d) ==
    LET g == Gcd(Abs(n), Abs(d))
        s == IF d < 0 THEN -1 ELSE 1
    IN  [n |-> (s * n) \div g, d |-> (s * d) \div g]

RInt(k) == [n |-> k, d |-> 1]
RAdd(x, y) == Rat(x.n * y.d + y.n * x.d, x.d * y.d)
RSub(x, y) == Rat(x.n * y.d - y.n * x.d, x.d * y.d)
\* cross-reduce before multiplying to keep the products small
RMul(x, y) ==
    LET g1 == Gcd(Abs(x.n), y.d)
        g2 == Gcd(Abs(y.n), x.d)
        a == IF g1 = 0 THEN 1 ELSE g1
        b == IF g2 = 0 THEN 1 ELSE g2
    IN  Rat((x.n \div a) * (y.n \div b), (x.d \div b) * (y.d \div a))
\* x / y for y # 0
RDiv(x, y) == RMul(x, [n |-> IF y.n < 0 THEN -y.d ELSE y.d, d |-> Abs(y.n)])
RLeq(x, y) == x.n * y.d <= y.n * x.d
RLt(x, y) == x.n * y.d < y.n * x.d
RMax(x, y) == IF RLt(x, y) THEN y ELSE x
RZero == RInt(0)

RECURSIVE RSumSeq(_)
RSumSeq(s) == IF s = <<>> THEN RZero ELSE RAdd(Head(s), RSumSeq(Tail(s)))

(***************************************************************************)
(* dict helpers                                                            *)
(***************************************************************************)
\* d.get(k, default)
Get(d, k, default) == IF k \in DOMAIN d THEN d[k] ELSE default

\* the dict d with d[k] = v added, an existing d[k] kept
Put_KeepFirst(d, k, v) ==
    [x \in DOMAIN d \cup {k} |-> IF x \in DOMAIN d THEN d[x] ELSE v]

\* the dict d with d[k] = v added or replaced
Put(d, k, v) == [x \in DOMAIN d \cup {k} |-> IF x = k THEN v ELSE d[x]]

EmptyDict == [x \in {} |-> 0]

\* the set of the elements of a list
Range(s) == {s[i] : i \in 1..Len(s)}

(***************************************************************************)
(* relief_supply_manager.py : ReliefSupplyManager                          *)
(***************************************************************************)
SupplyTypes == {"food", "water", "medicine", "shelter"}

\* the inventory set by __init__
DefaultSupplies ==
    [t \in SupplyTypes |->
        CASE t = "food" -> 1000
          [] t = "water" -> 1000
          [] t = "medicine" -> 100
          [] t = "shelter" -> 500]

\* inventories handed to set_current_supplies
SupplyChoices ==
    {DefaultSupplies,
     [t \in SupplyTypes |-> IF t = "medicine" THEN 0 ELSE 300]}

\* buffer percentages handed to the constructor
BufferPercentages == {0, 20, 100}

\* the buffer with the percentage not divided by 100
calculate_buffer_stock_NoPercent(supplies, pct) ==
    [t \in DOMAIN supplies |-> RInt(supplies[t] * pct)]

calculate_buffer_stock(supplies, pct) ==
    [t \in DOMAIN supplies |-> RMul(RInt(supplies[t]), Rat(pct, 100))]

calculate_available_supplies(supplies, pct) ==
    LET buffer_stock == calculate_buffer_stock(supplies, pct)
    IN  [t \in DOMAIN supplies |-> RSub(RInt(supplies[t]), buffer_stock[t])]

severity_scores ==
    [s \in {"low", "medium", "high", "unknown"} |->
        CASE s = "low" -> 1 [] s = "medium" -> 2 [] s = "high" -> 3
          [] s = "unknown" -> 1]

damage_scores ==
    [s \in {"none", "light", "moderate", "severe", "unknown"} |->
        CASE s = "none" -> 1 [] s = "light" -> 2 [] s = "moderate" -> 3
          [] s = "severe" -> 4 [] s = "unknown" -> 2]

access_scores ==
    [s \in {"easy", "moderate", "difficult", "unknown"} |->
        CASE s = "easy" -> 1 [] s = "moderate" -> 2 [] s = "difficult" -> 3
          [] s = "unknown" -> 2]

IntMax(a, b) == IF a < b THEN b ELSE a

\* the score without the term of time_since_disaster
calculate_disaster_priority_NoTimeTerm(disaster_data) ==
    LET severity == Get(disaster_data, "severity", "unknown")
        damage == Get(disaster_data, "infrastructure_damage", "unknown")
        access == Get(disaster_data, "accessibility", "unknown")
        pop_density == Get(disaster_data, "population_density", 1000)
    IN  RAdd(RInt(Get(severity_scores, severity, 1) * 3
                  + Get(damage_scores, damage, 2) * 2
                  + Get(access_scores, access, 2)),
             Rat(pop_density, 1000))

\* the score with a missing or unrecognised severity weighted 2, as the
\* other two factors are
calculate_disaster_priority_SeverityDefault2(disaster_data) ==
    LET severity == Get(disaster_data, "severity", "medium")
        damage == Get(disaster_data, "infrastructure_damage", "unknown")
        access == Get(disaster_data, "accessibility", "unknown")
        pop_density == Get(disaster_data, "population_density", 1000)
        time_since == Get(disaster_data, "time_since_disaster", 1)
    IN  RAdd(RAdd(RInt(Get(severity_scores, severity, 2) * 3
                       + Get(damage_scores, damage, 2) * 2
                       + Get(access_scores, access, 2)),
                  Rat(pop_density, 1000)),
             Rat(1, IntMax(time_since, 1)))

calculate_disaster_priority(disaster_data) ==
    LET severity == Get(disaster_data, "severity", "unknown")
        damage == Get(disaster_data, "infrastructure_damage", "unknown")
        access == Get(disaster_data, "accessibility", "unknown")
        pop_density == Get(disaster_data, "population_density", 1000)
        time_since == Get(disaster_data, "time_since_disaster", 1)
    IN  RAdd(RAdd(RInt(Get(severity_scores, severity, 1) * 3
                       + Get(damage_scores, damage, 2) * 2
                       + Get(access_scores, access, 2)),
                  Rat(pop_density, 1000)),
             Rat(1, IntMax(time_since, 1)))

\* the sort with x put before the elements whose score equals its own
RECURSIVE InsertDesc_TiesFirst(_, _)
InsertDesc_TiesFirst(x, s) ==
    IF s = <<>> THEN <<x>>
    ELSE IF RLeq(Head(s).priority_score, x.priority_score)
         THEN <<x>> \o s
         ELSE <<Head(s)>> \o InsertDesc_TiesFirst(x, Tail(s))

\* list.sort(key=..., reverse=True): stable, descending by priority_score.
\* InsertDesc puts x after every element whose score is >= its own.
RECURSIVE InsertDesc(_, _)
InsertDesc(x, s) ==
    IF s = <<>> THEN <<x>>
    ELSE IF RLt(Head(s).priority_score, x.priority_score)
         THEN <<x>> \o s
         ELSE <<Head(s)>> \o InsertDesc(x, Tail(s))

RECURSIVE SortDesc(_)
SortDesc(s) ==
    IF s = <<>> THEN <<>>
    ELSE InsertDesc(s[Len(s)], SortDesc(SubSeq(s, 1, Len(s) - 1)))

\* top_disasters = disaster_priorities[:5]
TopK == 5

Take(s, k) == SubSeq(s, 1, IF Len(s) < k THEN Len(s) ELSE k)

\* str.lower() on the disaster_type strings of the model
Lower(s) ==
    CASE s = "Flood" -> "flood"
      [] s = "EARTHQUAKE" -> "earthquake"
      [] OTHER -> s

Split(f, w, m, s) ==
    [t \in SupplyTypes |->
        CASE t = "food" -> f [] t = "water" -> w [] t = "medicine" -> m
          [] t = "shelter" -> s]

\* base percentages by disaster type
disaster_type_allocations ==
    [ty \in {"earthquake", "flood", "hurricane", "wildfire", "tornado", "default"} |->
        CASE ty = "earthquake" -> Split(25, 25, 30, 20)
          [] ty = "flood" -> Split(20, 40, 20, 20)
          [] ty = "hurricane" -> Split(30, 30, 20, 20)
          [] ty = "wildfire" -> Split(25, 35, 20, 20)
          [] ty = "tornado" -> Split(30, 25, 25, 20)
          [] ty = "default" -> Split(30, 30, 20, 20)]

\* multipliers, in tenths
severity_multipliers ==
    [sv \in {"low", "medium", "high", "unknown"} |->
        CASE sv = "low" -> Split(8, 8, 7, 7)
          [] sv = "medium" -> Split(10, 10, 10, 10)
          [] sv = "high" -> Split(12, 12, 13, 13)
          [] sv = "unknown" -> Split(10, 10, 10, 10)]

damage_multipliers ==
    [dm \in {"none", "light", "moderate", "severe", "unknown"} |->
        CASE dm = "none" -> Split(7, 7, 6, 6)
          [] dm = "light" -> Split(8, 8, 8, 8)
          [] dm = "moderate" -> Split(10, 10, 10, 10)
          [] dm = "severe" -> Split(13, 13, 14, 14)
          [] dm = "unknown" -> Split(10, 10, 10, 10)]

\* the sum of the values of a dict of rationals
RECURSIVE RSumDict(_)
RSumDict(d) ==
    IF DOMAIN d = {} THEN RZero
    ELSE LET k == CHOOSE x \in DOMAIN d : TRUE
         IN  RAdd(d[k], RSumDict([x \in DOMAIN d \ {k} |-> d[x]]))

\* lines 145-150: base percentage times both multipliers
RawAdjusted(disaster) ==
    LET disaster_type == Lower(Get(disaster, "disaster_type", "default"))
        base_allocations ==
            Get(disaster_type_allocations, disaster_type,
                disaster_type_allocations["default"])
        severity == Get(disaster, "severity", "unknown")
        damage == Get(disaster, "infrastructure_damage", "unknown")
        severity_mult ==
            Get(severity_multipliers, severity, severity_multipliers["unknown"])
        damage_mult ==
            Get(damage_multipliers, damage, damage_multipliers["unknown"])
    IN  [t \in DOMAIN base_allocations |->
            RMul(RMul(RInt(base_allocations[t]), Rat(severity_mult[t], 10)),
                 Rat(damage_mult[t], 10))]

\* Normalize with the rescaling loop left out
Normalize_NoRescale(adjusted) == [t \in DOMAIN adjusted |-> adjusted[t]]

\* lines 152-156: renormalise to 100 when the total is positive
Normalize(adjusted) ==
    LET total_percentage == RSumDict(adjusted)
    IN  IF RLt(RZero, total_percentage)
        THEN [t \in DOMAIN adjusted |->
                RMul(RDiv(adjusted[t], total_percentage), RInt(100))]
        ELSE adjusted

AdjustedAllocations(disaster) == Normalize(RawAdjusted(disaster))

\* the quantities with the priority ratio left out
DisasterAllocations_NoRatio(adjusted, available_supplies, priority_ratio) ==
    [t \in DOMAIN adjusted |->
        RMul(available_supplies[t], RDiv(adjusted[t], RInt(100)))]

\* lines 158-163: quantities of one disaster
DisasterAllocations(adjusted, available_supplies, priority_ratio) ==
    [t \in DOMAIN adjusted |->
        RMul(RMul(available_supplies[t], priority_ratio),
             RDiv(adjusted[t], RInt(100)))]

\* the key of line 165, disaster['disaster_type']
ResultKey(disaster) == disaster["disaster_type"]
HasResultKey(disaster) == "disaster_type" \in DOMAIN disaster

\* lines 129-167: the loop over top_disasters from position k on.  acc is
\* the allocations dict so far, trace the locals of each iteration begun,
\* available the available_supplies of line 82.
RECURSIVE AllocLoop(_, _, _, _, _, _)
AllocLoop(top, k, total_priority, available_supplies, acc, trace) ==
    IF k > Len(top)
    THEN [status |-> "ok", allocations |-> acc, trace |-> trace,
          available |-> available_supplies]
    ELSE IF total_priority.n = 0
    THEN [status |-> "ZeroDivisionError", allocations |-> EmptyDict,
          trace |-> trace, available |-> available_supplies]
    ELSE
      LET disaster == top[k].disaster
          priority_ratio == RDiv(top[k].priority_score, total_priority)
          adjusted == AdjustedAllocations(disaster)
          quantities ==
              DisasterAllocations(adjusted, available_supplies, priority_ratio)
          step == [disaster |-> disaster,
                   priority_score |-> top[k].priority_score,
                   priority_ratio |-> priority_ratio,
                   adjusted |-> adjusted, quantities |-> quantities]
      IN  IF ~HasResultKey(disaster)
          THEN [status |-> "KeyError", allocations |-> EmptyDict,
                trace |-> Append(trace, step),
                available |-> available_supplies]
          ELSE AllocLoop(top, k + 1, total_priority, available_supplies,
                         Put(acc, ResultKey(disaster), quantities),
                         Append(trace, step))

\* lines 84-91
DisasterPriorities(list) ==
    [i \in 1..Len(list) |->
        [disaster |-> list[i],
         priority_score |-> calculate_disaster_priority(list[i])]]

TopDisasters(list) == Take(SortDesc(DisasterPriorities(list)), TopK)

TotalPriority(top) == RSumSeq([i \in 1..Len(top) |-> top[i].priority_score])

allocate_supplies(list, supplies, pct) ==
    LET top_disasters == TopDisasters(list)
    IN  AllocLoop(top_disasters, 1, TotalPriority(top_disasters),
                  calculate_available_supplies(supplies, pct), EmptyDict, <<>>)

\* the stock falls to the buffer: what was available is taken out
SuppliesAfterAllocation_Depleted(supplies, pct) ==
    [t \in DOMAIN supplies |-> (supplies[t] * pct) \div 100]

\* self.current_supplies after allocate_supplies: lines 75-167 (and the
\* three methods they call) assign to no attribute of self
SuppliesAfterAllocation(supplies, pct) == supplies

(***************************************************************************)
(* Inputs of allocate_supplies                                             *)
(***************************************************************************)
EventKeys ==
    {"disaster_type", "severity", "infrastructure_damage", "accessibility",
     "population_density", "time_since_disaster"}

\* known values, one unrecognised value and one that needs lower()
TypeValues ==
    {"earthquake", "flood", "hurricane", "wildfire", "tornado", "volcano", "Flood"}
SeverityValues == {"low", "medium", "high", "unknown", "extreme"}
DamageValues == {"none", "light", "moderate", "severe", "unknown", "total"}

Ev(ty, sv, dm, ac, pd, ts) ==
    [k \in EventKeys |->
        CASE k = "disaster_type" -> ty
          [] k = "severity" -> sv
          [] k = "infrastructure_damage" -> dm
          [] k = "accessibility" -> ac
          [] k = "population_density" -> pd
          [] k = "time_since_disaster" -> ts]

\* the dict d without key k
Without(d, k) == [x \in DOMAIN d \ {k} |-> d[x]]

\* every combination of type, severity and damage, each possibly missing,
\* the other fields missing
CategoricalEvents ==
    UNION {
        {e \in [K -> TypeValues \cup SeverityValues \cup DamageValues] :
            /\ "disaster_type" \in K => e["disaster_type"] \in TypeValues
            /\ "severity" \in K => e["severity"] \in SeverityValues
            /\ "infrastructure_damage" \in K =>
                   e["infrastructure_damage"] \in DamageValues}
        : K \in SUBSET {"disaster_type", "severity", "infrastructure_damage"}}

\* the two events of test_relief_system.py
QuakeEvent == Ev("earthquake", "high", "severe", "difficult", 5000, 1)
FloodEvent == Ev("flood", "medium", "moderate", "moderate", 3000, 2)

\* events for the lists of two or more: the test's events, the first with
\* each field missing in turn, the event with no field, and events whose
\* population_density makes the score 7, 0, -6 and -7
EventPool ==
    {QuakeEvent, FloodEvent, EmptyDict,
     Ev("tornado", "unknown", "unknown", "unknown", 1000, 0),
     Ev("flood", "low", "none", "easy", 0, 1),
     Ev("flood", "low", "none", "easy", -7000, 1),
     Ev("earthquake", "low", "none", "easy", -13000, 1),
     Ev("hurricane", "low", "none", "easy", -14000, 1)}
    \cup {Without(QuakeEvent, k) : k \in EventKeys}

\* accessibility and time_since_disaster values: known, unrecognised,
\* and times before, at and after the floor of max(time_since, 1)
AccessValues == {"easy", "moderate", "difficult", "unknown", "blocked"}
TimeValues == {-3, 0, 1, 2, 4}

\* wildfires of population_density 1500 with every combination of
\* accessibility and time_since_disaster, each possibly missing
ScoredEvents ==
    LET base == [k \in {"disaster_type", "population_density"} |->
                    IF k = "disaster_type" THEN "wildfire" ELSE 1500]
        WithAccess ==
            {base} \cup {Put(base, "accessibility", a) : a \in AccessValues}
    IN  WithAccess \cup
        {Put(d, "time_since_disaster", t) : d \in WithAccess, t \in TimeValues}

SeqsUpTo(S, n) == UNION {[1..k -> S] : k \in 0..n}

\* the lists a caller of allocate_supplies hands it here: up to MaxEvents
\* pool events, or one categorical or scored event
InDisasterLists(list) ==
    \/ Len(list) <= MaxEvents /\ \A i \in 1..Len(list) : list[i] \in EventPool
    \/ Len(list) = 1 /\ list[1] \in CategoricalEvents \cup ScoredEvents

(***************************************************************************)
(* State machine of one ReliefSupplyManager and its caller                 *)
(***************************************************************************)
NoCall ==
    [status |-> "none", allocations |-> EmptyDict, trace |-> <<>>,
     available |-> EmptyDict]

\* ReliefSupplyManager(buffer_percentage); the caller starts with
\* disaster_list = []
InitManager ==
    /\ buffer_percentage \in BufferPercentages
    /\ current_supplies = DefaultSupplies
    /\ disaster_list = <<>>
    /\ allocations = NoCall

SetCurrentSupplies ==
    \E supplies \in SupplyChoices :
        /\ current_supplies' = supplies
        /\ UNCHANGED <<buffer_percentage, disaster_list, allocations, geoVars, dedupVars>>

\* a caller of the manager other than the pipeline, such as
\* test_relief_system.py, puts the next event in the list it will hand to
\* allocate_supplies
AppendDisaster ==
    \E e \in EventPool \cup CategoricalEvents \cup ScoredEvents :
        /\ allocations = NoCall
        /\ InDisasterLists(Append(disaster_list, e))
        /\ disaster_list' = Append(disaster_list, e)
        /\ UNCHANGED <<buffer_percentage, current_supplies, allocations, geoVars, dedupVars>>

\* allocations = manager.allocate_supplies(disaster_list)
AllocateSupplies ==
    /\ allocations' =
           allocate_supplies(disaster_list, current_supplies, buffer_percentage)
    /\ current_supplies' =
           SuppliesAfterAllocation(current_supplies, buffer_percentage)
    /\ UNCHANGED <<buffer_percentage, disaster_list, geoVars, dedupVars>>

\* events with scores 7, 7 and 13, for lists longer than the five selected
TiedPool ==
    {Ev("flood", "low", "none", "easy", 0, 1),
     Ev("earthquake", "low", "none", "easy", 0, 1),
     Ev("tornado", "high", "none", "easy", 0, 1)}

\* the same caller building one of the long lists
AppendTiedDisaster ==
    /\ allocations = NoCall
    /\ Len(disaster_list) < MaxTiedEvents
    /\ \E e \in TiedPool : disaster_list' = Append(disaster_list, e)
    /\ UNCHANGED <<buffer_percentage, current_supplies, allocations, geoVars, dedupVars>>

(***************************************************************************)
(* Properties of the allocation engine                                     *)
(***************************************************************************)
Called == allocations.status # "none"
Returned == allocations.status = "ok"

\* the sum over the entries of the returned map of the quantity of type t
RECURSIVE AllocatedTotal(_, _)
AllocatedTotal(map, t) ==
    IF DOMAIN map = {} THEN RZero
    ELSE LET k == CHOOSE x \in DOMAIN map : TRUE
         IN  RAdd(map[k][t], AllocatedTotal(Without(map, k), t))

\* C1: for every list passed to allocate_supplies and every supply type,
\* the quantities of that type summed over the entries of the returned map
\* do not exceed calculate_available_supplies() for that type.
C1_AllocatedWithinAvailable ==
    Returned =>
        \A t \in SupplyTypes :
            RLeq(AllocatedTotal(allocations.allocations, t),
                 allocations.available[t])

\* C2: for every event the allocation loop handles, whatever its
\* disaster_type, severity and infrastructure_damage (known, unrecognised
\* or missing), the four adjusted percentages sum to exactly 100.
C2_AdjustedSumsTo100 ==
    \A i \in 1..Len(allocations.trace) :
        /\ DOMAIN allocations.trace[i].adjusted = SupplyTypes
        /\ RSumDict(allocations.trace[i].adjusted) = RInt(100)

\* an event with an unrecognised type, high severity and a missing damage
\* level was allocated to, and renormalising changed its medicine share
C2_Witness ==
    /\ Returned
    /\ \E i \in 1..Len(allocations.trace) :
        LET d == allocations.trace[i].disaster IN
        /\ "disaster_type" \in DOMAIN d /\ d["disaster_type"] = "volcano"
        /\ "severity" \in DOMAIN d /\ d["severity"] = "high"
        /\ "infrastructure_damage" \notin DOMAIN d
        /\ allocations.trace[i].adjusted["medicine"] # RawAdjusted(d)["medicine"]

\* C11: for every supply type with quantity q and the buffer percentage p,
\* calculate_buffer_stock gives q*p/100 and calculate_available_supplies
\* gives q minus that, so buffer + available = q and 0 <= available <= q.
C11_BufferPlusAvailable ==
    \A t \in SupplyTypes :
        LET q == current_supplies[t]
            buffer == calculate_buffer_stock(current_supplies,
                                             buffer_percentage)[t]
            available == calculate_available_supplies(current_supplies,
                                                      buffer_percentage)[t]
        IN  /\ buffer = Rat(q * buffer_percentage, 100)
            /\ available = RSub(RInt(q), buffer)
            /\ RAdd(buffer, available) = RInt(q)
            /\ RLeq(RZero, available) /\ RLeq(available, RInt(q))
            /\ (Called /\ t \in DOMAIN allocations.available
                   /\ allocations.available[t] # available)
                  => \E supplies \in SupplyChoices \cup {DefaultSupplies} :
                         allocations.available[t] =
                             RSub(RInt(supplies[t]),
                                  Rat(supplies[t] * buffer_percentage, 100))

\* allocate_supplies ran with buffer_percentage 20 and 1000 food in stock:
\* the buffer is 200 and the available food 800
C11_Witness ==
    /\ Called
    /\ buffer_percentage = 20
    /\ current_supplies["food"] = 1000
    /\ calculate_buffer_stock(current_supplies, buffer_percentage)["food"]
           = RInt(200)
    /\ allocations.available["food"] = RInt(800)

\* C12: a step in which allocate_supplies (with the calculate_* calls it
\* makes) returns a new result leaves current_supplies and
\* buffer_percentage as they were, so the inventory is one that the
\* constructor or set_current_supplies set; a call on the same list
\* returns something else than the call before only if the inventory was
\* set in between.
C12_AllocationLeavesInventory ==
    [][(allocations' # allocations /\ allocations'.status # "none") =>
          /\ current_supplies' = current_supplies
          /\ buffer_percentage' = buffer_percentage
          /\ current_supplies' \in SupplyChoices \cup {DefaultSupplies}
          /\ Called =>
                 allocations.available #
                     calculate_available_supplies(current_supplies,
                                                  buffer_percentage)]_vars

\* allocate_supplies returned a non-empty allocation from the inventory
\* that set_current_supplies had set, and the inventory is still that one
C12_Witness ==
    /\ Returned
    /\ DOMAIN allocations.allocations # {}
    /\ current_supplies # DefaultSupplies
    /\ buffer_percentage = 20
    /\ allocations.available =
           calculate_available_supplies(current_supplies, buffer_percentage)

\* the input position i comes before position j in descending priority
\* order with ties in input order
Precedes(list, i, j) ==
    LET si == calculate_disaster_priority(list[i])
        sj == calculate_disaster_priority(list[j])
    IN  RLt(sj, si) \/ (si = sj /\ i < j)

\* the input positions selected, in the order they are handled
ExpectedSelection(list) ==
    [m \in 1..(IF Len(list) < TopK THEN Len(list) ELSE TopK) |->
        CHOOSE i \in 1..Len(list) :
            Cardinality({j \in 1..Len(list) : Precedes(list, j, i)}) = m - 1]

\* C13: allocate_supplies handles min(5, n) of the n input events, in
\* descending score order; every selected score is >= every unselected
\* score, and events of equal score are selected in input order and keep
\* their input order.
C13_TopFiveStable ==
    Called =>
        LET sel == ExpectedSelection(disaster_list)
            Unselected == (1..Len(disaster_list)) \ Range(sel)
        IN  /\ Returned
            /\ Len(allocations.trace) = Len(sel)
            /\ \A m \in 1..Len(sel) :
                   allocations.trace[m].disaster = disaster_list[sel[m]]
            /\ \A m \in 1..Len(sel), u \in Unselected :
                   /\ RLeq(calculate_disaster_priority(disaster_list[u]),
                           calculate_disaster_priority(disaster_list[sel[m]]))
                   /\ calculate_disaster_priority(disaster_list[u]) =
                          calculate_disaster_priority(disaster_list[sel[m]])
                        => sel[m] < u
            /\ \A m \in 1..Len(sel), k \in 1..Len(sel) :
                   (m < k /\ calculate_disaster_priority(disaster_list[sel[m]])
                               = calculate_disaster_priority(disaster_list[sel[k]]))
                       => sel[m] < sel[k]

\* six events were passed, five were handled, the one left out has the
\* score of a handled one, and two handled events of equal score differ
C13_Witness ==
    /\ Returned
    /\ Len(disaster_list) = 6
    /\ Len(allocations.trace) = 5
    /\ calculate_disaster_priority(disaster_list[6]) =
           calculate_disaster_priority(allocations.trace[5].disaster)
    /\ disaster_list[6] # allocations.trace[5].disaster
    /\ \E m \in 1..4 :
           /\ allocations.trace[m].disaster # allocations.trace[m + 1].disaster
           /\ calculate_disaster_priority(allocations.trace[m].disaster) =
                  calculate_disaster_priority(allocations.trace[m + 1].disaster)

\* the scores of the events the returned call handled
HandledScores ==
    [i \in 1..Len(allocations.trace) |->
        calculate_disaster_priority(allocations.trace[i].disaster)]

\* C14: the quantity of each supply type computed for a selected event is
\* available(type) * (its score / the sum of the selected scores) *
\* (its adjusted percentage / 100); the priority ratios of the selected
\* events sum to 1; every entry of the returned map is such a quantity map.
C14_QuantityFormula ==
    (Returned /\ allocations.trace # <<>>) =>
        LET total == RSumSeq(HandledScores)
            ratio(i) == RDiv(HandledScores[i], total)
        IN  /\ \A i \in 1..Len(allocations.trace), t \in SupplyTypes :
                   allocations.trace[i].quantities[t] =
                       RMul(RMul(allocations.available[t], ratio(i)),
                            RDiv(allocations.trace[i].adjusted[t], RInt(100)))
            /\ RSumSeq([i \in 1..Len(allocations.trace) |-> ratio(i)]) = RInt(1)
            /\ \A key \in DOMAIN allocations.allocations :
                   \E i \in 1..Len(allocations.trace) :
                       /\ allocations.trace[i].disaster["disaster_type"] = key
                       /\ allocations.allocations[key] =
                              allocations.trace[i].quantities

\* the two events of test_relief_system.py, scores 26 and 17.5, were
\* allocated with ratios 52/87 and 35/87 of the 800 available water
C14_Witness ==
    /\ Returned
    /\ disaster_list = <<FloodEvent, QuakeEvent>>
    /\ allocations.available["water"] = RInt(800)
    /\ allocations.trace[1].priority_ratio = Rat(52, 87)
    /\ allocations.trace[2].priority_ratio = Rat(35, 87)
    /\ RAdd(RAdd(allocations.allocations["earthquake"]["water"],
                 allocations.allocations["flood"]["water"]),
            RZero) # RInt(800)

\* the weights of the three categorical factors; any other value, and a
\* missing one, weighs as 'unknown'
SeverityWeight(x) ==
    CASE x = "low" -> 1 [] x = "medium" -> 2 [] x = "high" -> 3 [] OTHER -> 1
DamageWeight(x) ==
    CASE x = "none" -> 1 [] x = "light" -> 2 [] x = "moderate" -> 3
      [] x = "severe" -> 4 [] OTHER -> 2
AccessWeight(x) ==
    CASE x = "easy" -> 1 [] x = "moderate" -> 2 [] x = "difficult" -> 3
      [] OTHER -> 2

\* what time_since_disaster adds to the score
TimeTerm(d) ==
    IF "time_since_disaster" \in DOMAIN d /\ d["time_since_disaster"] > 1
    THEN Rat(1, d["time_since_disaster"])
    ELSE RInt(1)

\* sev*3 + damage*2 + access + population_density/1000
\*   + 1/max(time_since_disaster, 1)
ExpectedScore(d) ==
    LET Field(k) == IF k \in DOMAIN d THEN d[k] ELSE "unknown"
        density == IF "population_density" \in DOMAIN d
                   THEN d["population_density"] ELSE 1000
    IN  RAdd(RInt(SeverityWeight(Field("severity")) * 3
                  + DamageWeight(Field("infrastructure_damage")) * 2
                  + AccessWeight(Field("accessibility"))),
             RAdd(Rat(density, 1000), TimeTerm(d)))

\* C24: the score allocate_supplies computes for each selected event is
\* sev*3 + damage*2 + access + population_density/1000
\* + 1/max(time_since_disaster, 1), a missing or unrecognised categorical
\* value weighing as 'unknown' (1, 2 and 2); an event with no fields
\* scores 11, and a time_since_disaster of at most 1 adds exactly 1, as
\* a missing one does.
C24_PriorityScoreFormula ==
    \A i \in 1..Len(allocations.trace) :
        LET d == allocations.trace[i].disaster
            score == allocations.trace[i].priority_score
        IN  /\ score = ExpectedScore(d)
            /\ DOMAIN d = {} => score = RInt(11)
            /\ ("time_since_disaster" \in DOMAIN d
                   /\ d["time_since_disaster"] <= 1)
                  => score = ExpectedScore(Without(d, "time_since_disaster"))

\* a wildfire with an unrecognised accessibility, no severity and
\* time_since_disaster -3 was scored 3 + 4 + 2 + 1.5 + 1
C24_Witness ==
    /\ Called
    /\ Len(allocations.trace) = 1
    /\ LET d == allocations.trace[1].disaster
       IN  /\ "accessibility" \in DOMAIN d /\ d["accessibility"] = "blocked"
           /\ "time_since_disaster" \in DOMAIN d
           /\ d["time_since_disaster"] = -3
           /\ "severity" \notin DOMAIN d
    /\ allocations.trace[1].priority_score = Rat(23, 2)

\* the event's population_density is not negative (a missing one is 1000)
NonNegativeDensity(d) ==
    "population_density" \in DOMAIN d => d["population_density"] >= 0

\* C29: every event of non-negative population_density scores strictly
\* more than 6; so a call on a non-empty list of such events has a
\* positive total_priority and does not fail in the division, and a call
\* on the empty list returns the empty map with no iteration begun.
C29_ScoreAboveSix ==
    /\ \A i \in 1..Len(disaster_list) :
           NonNegativeDensity(disaster_list[i]) =>
               RLt(RInt(6), calculate_disaster_priority(disaster_list[i]))
    /\ Called =>
           /\ \A i \in 1..Len(allocations.trace) :
                  NonNegativeDensity(allocations.trace[i].disaster) =>
                      RLt(RInt(6), allocations.trace[i].priority_score)
           /\ (/\ disaster_list # <<>>
               /\ \A i \in 1..Len(disaster_list) :
                      NonNegativeDensity(disaster_list[i]))
              => /\ RLt(RZero, TotalPriority(TopDisasters(disaster_list)))
                 /\ allocations.status # "ZeroDivisionError"
                 /\ allocations.trace # <<>>
           /\ disaster_list = <<>> =>
                  /\ Returned
                  /\ allocations.allocations = EmptyDict
                  /\ allocations.trace = <<>>

\* a list of two events was allocated, one of them with the lowest
\* weights, density 0 and time 1, which scores 7
C29_Witness ==
    /\ Returned
    /\ Len(allocations.trace) = 2
    /\ \A i \in 1..2 : NonNegativeDensity(allocations.trace[i].disaster)
    /\ \E i \in 1..2 :
           /\ allocations.trace[i].disaster = Ev("flood", "low", "none", "easy", 0, 1)
           /\ allocations.trace[i].priority_score = RInt(7)

\* C18: the returned map has one entry per distinct disaster_type string
\* among the selected events; for a type that several selected events
\* share, the entry is the quantity map computed for the one that comes
\* last in descending-priority order.
C18_SameTypeOverwritten ==
    Returned =>
        LET tr == allocations.trace
            TypeAt(i) == tr[i].disaster["disaster_type"]
        IN  /\ DOMAIN allocations.allocations = {TypeAt(i) : i \in 1..Len(tr)}
            /\ \A i \in 1..Len(tr) :
                   (\A j \in (i + 1)..Len(tr) : TypeAt(j) # TypeAt(i))
                       => allocations.allocations[TypeAt(i)] = tr[i].quantities

\* two events of one disaster_type were selected: the map has the one
\* entry, which is the allocation of the second and not that of the first
C18_Witness ==
    /\ Returned
    /\ Len(allocations.trace) = 2
    /\ allocations.trace[1].disaster["disaster_type"]
           = allocations.trace[2].disaster["disaster_type"]
    /\ allocations.trace[1].quantities # allocations.trace[2].quantities
    /\ Cardinality(DOMAIN allocations.allocations) = 1
    /\ \A key \in DOMAIN allocations.allocations :
           allocations.allocations[key] = allocations.trace[2].quantities

\* C9: when the scores of the selected events sum to zero, the call does
\* not fail with a division by zero but returns an allocation.
C9_ZeroTotalHandled ==
    (Called /\ TotalPriority(TopDisasters(disaster_list)) = RZero) => Returned

\* C10: a list holding an event that lacks any of the optional fields is
\* allocated without error (here: whenever the total score is not zero).
C10_MissingFieldsDefaulted ==
    (/\ Called
     /\ TotalPriority(TopDisasters(disaster_list)) # RZero
     /\ \E i \in 1..Len(disaster_list) : DOMAIN disaster_list[i] # EventKeys)
    => Returned

(***************************************************************************)
(* Strings of place names: sequences of one-character strings              *)
(***************************************************************************)
\* Python's None
None == <<"<None>">>

LowerChar(c) ==
    CASE c = "A" -> "a" [] c = "B" -> "b" [] c = "X" -> "x" [] OTHER -> c

\* str.lower()
LowerStr(s) == [i \in 1..Len(s) |-> LowerChar(s[i])]

\* str.strip(): drop leading and trailing blanks
RECURSIVE LStrip(_)
LStrip(s) == IF s # <<>> /\ Head(s) = " " THEN LStrip(Tail(s)) ELSE s

RECURSIVE RStrip(_)
RStrip(s) ==
    IF s # <<>> /\ s[Len(s)] = " " THEN RStrip(SubSeq(s, 1, Len(s) - 1)) ELSE s

Strip(s) == RStrip(LStrip(s))

\* loc.lower().strip(), lines 31-32
NormalizeLoc(s) == Strip(LowerStr(s))

\* sub in s
Contains(sub, s) ==
    \E i \in 1..(Len(s) + 1) :
        /\ i + Len(sub) - 1 <= Len(s)
        /\ SubSeq(s, i, i + Len(sub) - 1) = sub

\* Python truthiness of an optional string: None and "" are falsy
Falsy(s) == s = None \/ s = <<>>

(***************************************************************************)
(* The geocoding collaborator (Nominatim), location_analyzer.py:28         *)
(***************************************************************************)
\* coordinates and importance in tenths
Place(lat, lon, imp, ty, disp) ==
    [found |-> TRUE, latitude |-> lat, longitude |-> lon, importance |-> imp,
     type |-> ty, display_name |-> disp]

\* the value None of a lookup that found nothing or failed
NoInfo == [found |-> FALSE]

\* what the service knows: "a" is a country, "b" a city in it, "bb" a town
\* close to "b"; every other query finds nothing
Gazetteer ==
    [q \in {<<"a">>, <<"b">>, <<"b", "b">>} |->
        CASE q = <<"a">> -> Place(0, 0, 8, "country", <<"A">>)
          [] q = <<"b">> -> Place(500, 500, 6, "city", <<"B", " ", "A">>)
          [] q = <<"b", "b">> -> Place(503, 497, 3, "town", <<"X">>)]

\* the outcomes of one geocode(query) call: the answer of the service
\* (found or nothing found), a GeocoderTimedOut or another exception
GeocodeOutcomes(q) ==
    {"timeout", "error"} \cup
    (IF NormalizeLoc(q) \in DOMAIN Gazetteer THEN {"found"} ELSE {"notfound"})

(***************************************************************************)
(* location_analyzer.py : LocationAnalyzer                                 *)
(***************************************************************************)
\* one entry of the record of what a call did: a cache hit, a sleep or a
\* geocode() call for query q, and whether the lookup returned an info
Event(kind, q, outcome, found) ==
    [kind |-> kind, q |-> q, outcome |-> outcome, found |-> found]

\* _get_location_info caching only the lookups that found something
GetLocationInfo_NoNegativeCache(cache, location, outcome) ==
    IF location \in DOMAIN cache
    THEN [raised |-> FALSE, result |-> cache[location], cache |-> cache,
          events |-> <<Event("hit", location, "cached", cache[location].found)>>]
    ELSE LET result ==
                 IF outcome = "found" THEN Gazetteer[NormalizeLoc(location)]
                 ELSE NoInfo
         IN  [raised |-> FALSE, result |-> result,
              cache |-> IF result.found THEN Put(cache, location, result)
                        ELSE cache,
              events |-> <<Event("sleep", location, "slept", FALSE),
                           Event("geocode", location, outcome, result.found)>>]

\* _get_location_info calling the geocoder without the delay
GetLocationInfo_NoDelay(cache, location, outcome) ==
    IF location \in DOMAIN cache
    THEN [raised |-> FALSE, result |-> cache[location], cache |-> cache,
          events |-> <<Event("hit", location, "cached", cache[location].found)>>]
    ELSE LET result ==
                 IF outcome = "found" THEN Gazetteer[NormalizeLoc(location)]
                 ELSE NoInfo
         IN  [raised |-> FALSE, result |-> result,
              cache |-> Put(cache, location, result),
              events |-> <<Event("geocode", location, outcome, result.found)>>]

\* _get_location_info(location) on the cache, the geocoder answering with
\* outcome if it is called.  Returns the result, the cache afterwards and
\* what was done: a cache hit, or time.sleep(1) and then geocode().
GetLocationInfo(cache, location, outcome) ==
    IF location \in DOMAIN cache
    THEN [raised |-> FALSE, result |-> cache[location], cache |-> cache,
          events |-> <<Event("hit", location, "cached", cache[location].found)>>]
    ELSE LET result ==
                 IF outcome = "found" THEN Gazetteer[NormalizeLoc(location)]
                 ELSE NoInfo
         IN  [raised |-> FALSE, result |-> result,
              cache |-> Put(cache, location, result),
              events |-> <<Event("sleep", location, "slept", FALSE),
                           Event("geocode", location, outcome, result.found)>>]

(***************************************************************************)
(* disaster_deduplicator.py : _are_locations_same                          *)
(***************************************************************************)
\* the comparison looking for the first name only in the display name of
\* the second
SameByInfo_OneWay(loc1, loc2, loc1_info, loc2_info) ==
    /\ loc1_info.found /\ loc2_info.found
    /\ \/ /\ Abs(loc1_info.latitude - loc2_info.latitude) < 5
          /\ Abs(loc1_info.longitude - loc2_info.longitude) < 5
       \/ Contains(loc1, LowerStr(loc2_info.display_name))

\* the comparison falling back on the names when a lookup found nothing
SameByInfo_NameFallback(loc1, loc2, loc1_info, loc2_info) ==
    IF loc1_info.found /\ loc2_info.found
    THEN \/ /\ Abs(loc1_info.latitude - loc2_info.latitude) < 5
            /\ Abs(loc1_info.longitude - loc2_info.longitude) < 5
         \/ Contains(loc1, LowerStr(loc2_info.display_name))
         \/ Contains(loc2, LowerStr(loc1_info.display_name))
    ELSE Contains(loc1, loc2) \/ Contains(loc2, loc1)

\* lines 42-56, once both lookups are done
SameByInfo(loc1, loc2, loc1_info, loc2_info) ==
    /\ loc1_info.found /\ loc2_info.found
    /\ \/ /\ Abs(loc1_info.latitude - loc2_info.latitude) < 5
          /\ Abs(loc1_info.longitude - loc2_info.longitude) < 5
       \/ Contains(loc1, LowerStr(loc2_info.display_name))
       \/ Contains(loc2, LowerStr(loc1_info.display_name))

\* _are_locations_same without the direct match of lines 34-36
AreLocationsSame_NoDirectMatch(cache, raw1, raw2, oc) ==
    IF Falsy(raw1) \/ Falsy(raw2)
    THEN [raised |-> FALSE, result |-> FALSE, cache |-> cache, events |-> <<>>]
    ELSE
      LET loc1 == NormalizeLoc(raw1)
          loc2 == NormalizeLoc(raw2)
          r1 == GetLocationInfo(cache, loc1, oc[loc1])
          r2 == GetLocationInfo(r1.cache, loc2, oc[loc2])
      IN  [raised |-> FALSE,
           result |-> SameByInfo(loc1, loc2, r1.result, r2.result),
           cache |-> r2.cache,
           events |-> r1.events \o r2.events]

\* _are_locations_same taking two absent or two empty locations as the same
AreLocationsSame_EmptyEqual(cache, raw1, raw2, oc) ==
    IF Falsy(raw1) \/ Falsy(raw2)
    THEN [raised |-> FALSE, result |-> raw1 = raw2, cache |-> cache,
          events |-> <<>>]
    ELSE
      LET loc1 == NormalizeLoc(raw1)
          loc2 == NormalizeLoc(raw2)
      IN  IF loc1 = loc2
          THEN [raised |-> FALSE, result |-> TRUE, cache |-> cache,
                events |-> <<>>]
          ELSE
            LET r1 == GetLocationInfo(cache, loc1, oc[loc1])
                r2 == GetLocationInfo(r1.cache, loc2, oc[loc2])
            IN  [raised |-> FALSE,
                 result |-> SameByInfo(loc1, loc2, r1.result, r2.result),
                 cache |-> r2.cache,
                 events |-> r1.events \o r2.events]

\* _are_locations_same(loc1, loc2); oc[q] is the outcome of geocode(q)
AreLocationsSame(cache, raw1, raw2, oc) ==
    IF Falsy(raw1) \/ Falsy(raw2)
    THEN [raised |-> FALSE, result |-> FALSE, cache |-> cache, events |-> <<>>]
    ELSE
      LET loc1 == NormalizeLoc(raw1)
          loc2 == NormalizeLoc(raw2)
      IN  IF loc1 = loc2
          THEN [raised |-> FALSE, result |-> TRUE, cache |-> cache,
                events |-> <<>>]
          ELSE
            LET r1 == GetLocationInfo(cache, loc1, oc[loc1])
            IN  IF r1.raised THEN [r1 EXCEPT !.result = FALSE]
                ELSE
                  LET r2 == GetLocationInfo(r1.cache, loc2, oc[loc2])
                  IN  [raised |-> r2.raised,
                       result |-> ~r2.raised /\
                           SameByInfo(loc1, loc2, r1.result, r2.result),
                       cache |-> r2.cache,
                       events |-> r1.events \o r2.events]

(***************************************************************************)
(* location_analyzer.py : determine_primary_location                       *)
(*                                                                         *)
(* A text is the sequence of its tokens (text.split(), and the spaCy       *)
(* tokens); its first sentence ends with the first "." token.              *)
(***************************************************************************)
location_indicators ==
    {<<"s", "t", "r", "u", "c", "k">>, <<"h", "i", "t">>,
     <<"o", "c", "c", "u", "r", "r", "e", "d">>,
     <<"h", "a", "p", "p", "e", "n", "e", "d", " ", "i", "n">>,
     <<"a", "f", "f", "e", "c", "t", "e", "d">>,
     <<"d", "e", "v", "a", "s", "t", "a", "t", "e", "d">>,
     <<"i", "m", "p", "a", "c", "t", "e", "d">>,
     <<"a", "t">>, <<"i", "n">>, <<"n", "e", "a", "r">>}

IntMin(a, b) == IF a < b THEN a ELSE b

\* the number of elements of the set S
Count(S) == Cardinality(S)

\* the last position of the first sentence, next(doc.sents)
FirstSentenceEnd(text) ==
    IF \E i \in 1..Len(text) : text[i] = <<".">>
    THEN CHOOSE i \in 1..Len(text) :
             /\ text[i] = <<".">>
             /\ \A j \in 1..(i - 1) : text[j] # <<".">>
    ELSE Len(text)

\* _analyze_location_context(text, location)
AnalyzeLocationContext(text, location) ==
    LET location_lower == LowerStr(location)
        Mentions ==
            {i \in 1..Len(text) : Contains(LowerStr(text[i]), location_lower)}
        \* doc[max(0, i - 5) : min(len(doc), i + 6)] in 1-based positions
        Window(i) == IntMax(1, i - 5)..IntMin(Len(text), i + 5)
        Cues(i) ==
            Count({j \in Window(i) : LowerStr(text[j]) \in location_indicators})
        \* +1 per cue word around each mention, +2 per mention in the
        \* first sentence
        RECURSIVE Total(_)
        Total(S) ==
            IF S = {} THEN 0
            ELSE LET i == CHOOSE x \in S : TRUE
                 IN  Cues(i) + (IF i <= FirstSentenceEnd(text) THEN 2 ELSE 0)
                     + Total(S \ {i})
    IN  Total(Mentions)

\* lines 95-114: the score of one candidate given its location info
LocationScore(text, location, location_info) ==
    LET geo ==
            IF location_info.found
            THEN location_info.importance
                 + (CASE location_info.type \in {"city", "town", "village"} -> 5
                      [] location_info.type \in {"state", "province"} -> 3
                      [] location_info.type \in {"country"} -> 1
                      [] OTHER -> 0)
            ELSE 0
        location_lower == LowerStr(location)
        mention_count ==
            Count({i \in 1..Len(text) :
                      Contains(LowerStr(text[i]), location_lower)})
    IN  geo + mention_count * 2 + AnalyzeLocationContext(text, location) * 3

\* location_scores[location] = score on a dict kept as a sequence of
\* <<key, value>> in insertion order
PutOrdered(items, key, value) ==
    IF \E i \in 1..Len(items) : items[i][1] = key
    THEN [i \in 1..Len(items) |->
             IF items[i][1] = key THEN <<key, value>> ELSE items[i]]
    ELSE Append(items, <<key, value>>)

\* max(items, key=lambda x: x[1])[0]: the first item of maximal value
FirstMax(items) ==
    LET i == CHOOSE x \in 1..Len(items) :
                 /\ \A j \in 1..Len(items) : items[j][2] <= items[x][2]
                 /\ \A j \in 1..(x - 1) : items[j][2] < items[x][2]
    IN  items[i][1]

\* lines 89-116: the loop over the candidates from position k on
RECURSIVE ScoreLoop(_, _, _, _, _, _, _)
ScoreLoop(cache, text, locations, k, oc, scores, events) ==
    IF k > Len(locations)
    THEN [raised |-> FALSE, result |-> FirstMax(scores), cache |-> cache,
          events |-> events]
    ELSE
      LET location == locations[k]
          r == GetLocationInfo(cache, location, oc[location])
      IN  IF r.raised
          THEN [raised |-> TRUE, result |-> None, cache |-> r.cache,
                events |-> events \o r.events]
          ELSE ScoreLoop(r.cache, text, locations, k + 1, oc,
                         PutOrdered(scores, location,
                                    LocationScore(text, location, r.result)),
                         events \o r.events)

\* determine_primary_location(text, locations)
DeterminePrimaryLocation(cache, text, locations, oc) ==
    IF locations = <<>>
    THEN [raised |-> FALSE, result |-> None, cache |-> cache, events |-> <<>>]
    ELSE IF Len(locations) = 1
    THEN [raised |-> FALSE, result |-> locations[1], cache |-> cache,
          events |-> <<>>]
    ELSE ScoreLoop(cache, text, locations, 1, oc, <<>>, <<>>)

(***************************************************************************)
(* State machine of one LocationAnalyzer and its callers                   *)
(***************************************************************************)
\* place-name strings handed to the operations
LocNames ==
    {<<>>, <<" ">>, <<"a">>, <<" ", "A">>, <<"b">>, <<"b", "b">>, <<"a", "b">>}
LocInputs == LocNames \cup {None}

\* candidate names handed to determine_primary_location
Candidates == {<<"a">>, <<" ", "A">>, <<"b">>, <<"a", "b">>}

\* report texts, as token sequences
Texts ==
    {<<>>,
     <<<<"h", "i", "t">>, <<"B">>, <<".">>, <<"a">>>>}

NoLast ==
    [op |-> "none", args |-> <<>>, raised |-> FALSE, result |-> None,
     events |-> <<>>]

AllOutcomes == {"found", "notfound", "timeout", "error"}

\* an outcome for each query of Q the geocoder may be asked
OutcomeChoices(Q) ==
    {oc \in [Q -> AllOutcomes] : \A q \in Q : oc[q] \in GeocodeOutcomes(q)}

\* geo_calls after the events of one call
RECURSIVE Record(_, _)
Record(calls, events) ==
    IF events = <<>> THEN calls
    ELSE LET e == Head(events)
         IN  IF e.kind = "geocode"
             THEN Record(Put(calls, e.q,
                             Append(Get(calls, e.q, <<>>), e.outcome)),
                         Tail(events))
             ELSE Record(calls, Tail(events))

RECURSIVE TotalCalls(_)
TotalCalls(calls) ==
    IF DOMAIN calls = {} THEN 0
    ELSE LET q == CHOOSE x \in DOMAIN calls : TRUE
         IN  Len(calls[q]) + TotalCalls(Without(calls, q))

InitGeo ==
    /\ location_cache = EmptyDict
    /\ geo_calls = EmptyDict
    /\ last = NoLast

\* the effect of a call that returned r
Finish(op, args, r) ==
    /\ TotalCalls(Record(geo_calls, r.events)) <= MaxGeoCalls
    /\ location_cache' = r.cache
    /\ geo_calls' = Record(geo_calls, r.events)
    /\ last' = [op |-> op, args |-> args, raised |-> r.raised,
                result |-> r.result, events |-> r.events]
    /\ UNCHANGED <<allocVars, dedupVars>>

\* the queries a call of _are_locations_same can send to the geocoder
SameQueries(raw1, raw2) ==
    IF Falsy(raw1) \/ Falsy(raw2) THEN {}
    ELSE {NormalizeLoc(raw1), NormalizeLoc(raw2)} \ DOMAIN location_cache

CallAreLocationsSame ==
    /\ last.op = "none"
    /\ \E raw1 \in LocInputs, raw2 \in LocInputs :
        \E oc \in OutcomeChoices(SameQueries(raw1, raw2)) :
            Finish("same", <<raw1, raw2>>,
                   AreLocationsSame(location_cache, raw1, raw2, oc))

CallDeterminePrimaryLocation ==
    /\ last.op = "none"
    /\ \E text \in Texts, locations \in SeqsUpTo(Candidates, MaxCandidates) :
        \E oc \in OutcomeChoices(Range(locations) \ DOMAIN location_cache) :
            Finish("primary", <<text, locations>>,
                   DeterminePrimaryLocation(location_cache, text, locations, oc))

\* the caller has taken the result of the last call
ReturnGeo ==
    /\ last.op # "none"
    /\ last' = NoLast
    /\ UNCHANGED <<location_cache, geo_calls, allocVars, dedupVars>>

NextGeo == CallAreLocationsSame \/ CallDeterminePrimaryLocation \/ ReturnGeo

(***************************************************************************)
(* Properties of the location cache and matcher                            *)
(***************************************************************************)
\* both strings are non-empty and equal after lower() and strip()
EqualNonEmpty(raw1, raw2) ==
    /\ ~Falsy(raw1) /\ ~Falsy(raw2)
    /\ NormalizeLoc(raw1) = NormalizeLoc(raw2)

\* C5: a call of _are_locations_same on two non-empty strings that are
\* equal after trimming and lower-casing returns true, looks nothing up
\* (no cache read, no sleep, no geocoder call) and leaves the cache as it was.
C5_ExactMatchShortCircuits ==
    [][(last'.op = "same" /\ EqualNonEmpty(last'.args[1], last'.args[2]))
       => /\ last'.result = TRUE
          /\ ~last'.raised
          /\ last'.events = <<>>
          /\ location_cache' = location_cache
          /\ geo_calls' = geo_calls]_vars

\* same("ab", "ab") was true although "ab" cannot be geocoded and is not
\* in the cache, and same("a", " A") was true
C5_Witness ==
    /\ last.op = "same"
    /\ last.result = TRUE
    /\ \/ /\ last.args = << <<"a", "b">>, <<"a", "b">> >>
          /\ <<"a", "b">> \notin DOMAIN location_cache
       \/ last.args = << <<"a">>, <<" ", "A">> >>

\* C6: within the lifetime of one LocationAnalyzer the geocoder is called
\* at most once per normalized (trimmed, lower-cased) place name.
C6_OneCallPerNormalizedName ==
    \A q1 \in DOMAIN geo_calls, q2 \in DOMAIN geo_calls :
        NormalizeLoc(q1) = NormalizeLoc(q2) =>
            q1 = q2 /\ Len(geo_calls[q1]) <= 1

Failures == {"timeout", "error", "notfound"}

\* C7: a geocoder call that times out, raises or finds nothing makes the
\* lookup return absent without raising; the absence is cached, and a
\* later lookup of the same key is absent again without a second call.
C7_FailureCachedAsAbsent ==
    /\ ~last.raised
    /\ \A q \in DOMAIN geo_calls :
        geo_calls[q][1] \in Failures =>
            /\ Len(geo_calls[q]) = 1
            /\ q \in DOMAIN location_cache
            /\ location_cache[q] = NoInfo
            /\ \A i \in 1..Len(last.events) :
                   last.events[i].q = q => ~last.events[i].found

\* a lookup was answered absent from the cache for a key whose one
\* geocoder call had timed out
C7_Witness ==
    \E i \in 1..Len(last.events) :
        /\ last.events[i].kind = "hit"
        /\ ~last.events[i].found
        /\ geo_calls[last.events[i].q] = <<"timeout">>

\* the lookups of the last call: cache hits and geocoder calls
Lookups == {i \in 1..Len(last.events) : last.events[i].kind \in {"hit", "geocode"}}

\* C25: when the two normalized strings differ and at least one of them
\* does not resolve (the geocoder finds nothing or fails, now or when the
\* cached answer was made), _are_locations_same returns false without
\* raising, also when one string is a substring of the other.
C25_UnresolvedNotSame ==
    (/\ last.op = "same"
     /\ ~Falsy(last.args[1]) /\ ~Falsy(last.args[2])
     /\ NormalizeLoc(last.args[1]) # NormalizeLoc(last.args[2])
     /\ \E i \in Lookups : ~last.events[i].found)
    => (last.result = FALSE /\ ~last.raised)

\* 'b' and 'bb', a substring of it and a place 0.03 degrees away, were
\* compared while the geocoder timed out for one of them: not the same
C25_Witness ==
    /\ last.op = "same"
    /\ {NormalizeLoc(last.args[1]), NormalizeLoc(last.args[2])}
           = {<<"b">>, <<"b", "b">>}
    /\ \E i \in Lookups : last.events[i].outcome = "timeout"
    /\ \E i \in Lookups : last.events[i].found
    /\ last.result = FALSE

\* C26: in the events of every call, each geocoder call comes right after
\* the delay for the same name and each delay is followed by its call; a
\* lookup of a name that is in the cache (from before the call or from an
\* earlier lookup of the call) is a cache hit with no delay and no
\* geocoder call, so the geocoder calls counted grow by the calls made.
C26_DelayBeforeGeocode ==
    [][last'.op # "none" =>
          LET ev == last'.events
              Geocoded == {i \in 1..Len(ev) : ev[i].kind = "geocode"}
          IN  /\ \A i \in 1..Len(ev) :
                     /\ ev[i].kind \in {"hit", "sleep", "geocode"}
                     /\ ev[i].kind = "geocode" =>
                            /\ i > 1
                            /\ ev[i - 1].kind = "sleep"
                            /\ ev[i - 1].q = ev[i].q
                            /\ ev[i].q \notin DOMAIN location_cache
                            /\ \A j \in Geocoded : j < i => ev[j].q # ev[i].q
                     /\ ev[i].kind = "sleep" =>
                            /\ i < Len(ev)
                            /\ ev[i + 1].kind = "geocode"
                     /\ ev[i].kind = "hit" =>
                            \/ ev[i].q \in DOMAIN location_cache
                            \/ \E j \in Geocoded : j < i /\ ev[j].q = ev[i].q
              /\ TotalCalls(geo_calls') =
                     TotalCalls(geo_calls) + Cardinality(Geocoded)]_vars

\* one call looked up a name that was in the cache, with no delay, and
\* another name with the delay and then the geocoder call
C26_Witness ==
    /\ Len(last.events) = 3
    /\ \E i \in 1..3 : last.events[i].kind = "hit"
    /\ \E i \in 1..2 :
           /\ last.events[i].kind = "sleep"
           /\ last.events[i + 1].kind = "geocode"

\* the answers the geocoder gave in the events ev, by name
OutcomesOf(ev) ==
    LET Geocoded == {i \in 1..Len(ev) : ev[i].kind = "geocode"}
    IN  [q \in {ev[i].q : i \in Geocoded} |->
            ev[CHOOSE i \in Geocoded : ev[i].q = q].outcome]

\* C30: with a geocoder that answers each name as it did in the call,
\* _are_locations_same gives the same answer with its arguments
\* exchanged, both from the cache the call started with (leaving the same
\* cache) and from the cache the call left.
C30_SameIsSymmetric ==
    [][last'.op = "same" =>
          LET oc == OutcomesOf(last'.events)
              before == AreLocationsSame(location_cache, last'.args[2],
                                         last'.args[1], oc)
              after == AreLocationsSame(location_cache', last'.args[2],
                                        last'.args[1], oc)
          IN  /\ before.result = last'.result
              /\ before.cache = location_cache'
              /\ after.result = last'.result
              /\ after.cache = location_cache']_vars

\* 'b' and 'a' were both looked up and found far apart, and are the same
\* because the display name of the first holds the second
C30_Witness ==
    /\ last.op = "same"
    /\ last.args = << <<"b">>, <<"a">> >>
    /\ last.result = TRUE
    /\ Len(last.events) = 4
    /\ last.events[2].outcome = "found"
    /\ last.events[4].outcome = "found"
    /\ ~Contains(<<"b">>, LowerStr(Gazetteer[<<"a">>].display_name))

(***************************************************************************)
(* disaster_deduplicator.py : combine_duplicate_disasters                  *)
(*                                                                         *)
(* The DataFrame is the sequence of its rows; published_at is the parsed   *)
(* timestamp in hours; similarities are in hundredths.                     *)
(***************************************************************************)
\* DisasterDeduplicator(similarity_threshold=0.6, time_window_days=3)
similarity_threshold == 60
time_window_days == 3

\* a missing disaster_type (NaN), which dropna() removes
NaN == "<NaN>"

\* TfidfVectorizer's tokens have two or more characters: the text adds
\* something to the vocabulary
HasVocabulary(text) == \E i \in 1..Len(text) : Len(text[i]) >= 2

\* the similarity matrices _calculate_text_similarity can return for the
\* rows of df: symmetric, 0 for a text without vocabulary, 1 between equal
\* texts, otherwise just below or at the threshold
SimMatrices(df) ==
    LET N == Len(df)
        Given(i, j) == ~HasVocabulary(df[i].text) \/ ~HasVocabulary(df[j].text)
                           \/ df[i].text = df[j].text
        Open == {p \in (1..N) \X (1..N) : p[1] < p[2] /\ ~Given(p[1], p[2])}
    IN  {[p \in (1..N) \X (1..N) |->
             IF ~HasVocabulary(df[p[1]].text) \/ ~HasVocabulary(df[p[2]].text)
             THEN 0
             ELSE IF df[p[1]].text = df[p[2]].text THEN 100
             ELSE IF p[1] < p[2] THEN c[p] ELSE c[<<p[2], p[1]>>]] :
            c \in [Open -> {similarity_threshold - 1, similarity_threshold}]}

\* abs((date_j - date_i).days): timedelta.days is the floor of the
\* difference in days
DaysDiff(date_i, date_j) == Abs((date_j - date_i) \div 24)

\* the join test reading the disaster types as well
Joins_SameType(df, sim, i, j) ==
    /\ sim[<<i, j>>] >= similarity_threshold
    /\ DaysDiff(df[i].published_at, df[j].published_at) <= time_window_days
    /\ df[i].disaster_type = df[j].disaster_type

\* lines 156-161: does j join the cluster seeded by i
Joins(df, sim, i, j) ==
    /\ sim[<<i, j>>] >= similarity_threshold
    /\ DaysDiff(df[i].published_at, df[j].published_at) <= time_window_days

\* the loop without the skip of the reports already assigned
RECURSIVE ClusterLoop_NoSkip(_, _, _, _, _, _)
ClusterLoop_NoSkip(df, sim, i, j, cluster, processed) ==
    IF j > Len(df) THEN [cluster |-> cluster, processed |-> processed]
    ELSE IF Joins(df, sim, i, j)
    THEN ClusterLoop_NoSkip(df, sim, i, j + 1, Append(cluster, j),
                            processed \cup {j})
    ELSE ClusterLoop_NoSkip(df, sim, i, j + 1, cluster, processed)

\* the loop with j compared with every member the cluster has so far
RECURSIVE ClusterLoop_Transitive(_, _, _, _, _, _)
ClusterLoop_Transitive(df, sim, i, j, cluster, processed) ==
    IF j > Len(df) THEN [cluster |-> cluster, processed |-> processed]
    ELSE IF j \in processed
    THEN ClusterLoop_Transitive(df, sim, i, j + 1, cluster, processed)
    ELSE IF \E n \in 1..Len(cluster) : Joins(df, sim, cluster[n], j)
    THEN ClusterLoop_Transitive(df, sim, i, j + 1, Append(cluster, j),
                                processed \cup {j})
    ELSE ClusterLoop_Transitive(df, sim, i, j + 1, cluster, processed)

\* lines 152-163: the loop over j from position j on, for seed i
RECURSIVE ClusterLoop(_, _, _, _, _, _)
ClusterLoop(df, sim, i, j, cluster, processed) ==
    IF j > Len(df) THEN [cluster |-> cluster, processed |-> processed]
    ELSE IF j \in processed
    THEN ClusterLoop(df, sim, i, j + 1, cluster, processed)
    ELSE IF Joins(df, sim, i, j)
    THEN ClusterLoop(df, sim, i, j + 1, Append(cluster, j), processed \cup {j})
    ELSE ClusterLoop(df, sim, i, j + 1, cluster, processed)

\* the least element of a non-empty sequence of numbers
SeqMin(s) == CHOOSE x \in Range(s) : \A y \in Range(s) : x <= y

\* lines 145-166: the loop over i from position i on; clusters is the
\* defaultdict as a sequence of <<key, members>> in insertion order
RECURSIVE Pass1(_, _, _, _, _)
Pass1(df, sim, i, clusters, processed) ==
    IF i > Len(df) THEN clusters
    ELSE IF i \in processed THEN Pass1(df, sim, i + 1, clusters, processed)
    ELSE
      LET r == ClusterLoop(df, sim, i, i + 1, <<i>>, processed \cup {i})
          cluster_id == SeqMin(r.cluster)
          old == IF \E k \in 1..Len(clusters) : clusters[k][1] = cluster_id
                 THEN (CHOOSE k \in 1..Len(clusters) :
                           clusters[k][1] = cluster_id)
                 ELSE 0
      IN  Pass1(df, sim, i + 1,
                IF old = 0 THEN Append(clusters, <<cluster_id, r.cluster>>)
                ELSE [clusters EXCEPT ![old] =
                         <<cluster_id, clusters[old][2] \o r.cluster>>],
                r.processed)


\* the number of positions of seq s holding x
Occurrences(s, x) == Cardinality({i \in 1..Len(s) : s[i] = x})

\* the order of Python's string comparison on the disaster types
TypeOrder == <<"earthquake", "flood", "unknown">>
TypeRank(x) == CHOOSE k \in 1..Len(TypeOrder) : TypeOrder[k] = x

\* _get_most_common_value(series): dropna(), then the first of mode(),
\* which pandas returns sorted
MostCommonValue(series) ==
    LET values == SelectSeq(series, LAMBDA x : x # NaN)
        Modes == {x \in Range(values) :
                     \A y \in Range(values) :
                         Occurrences(values, y) <= Occurrences(values, x)}
    IN  IF values = <<>> THEN "unknown"
        ELSE CHOOSE x \in Modes : \A y \in Modes : TypeRank(x) <= TypeRank(y)

severity_rank ==
    [x \in {"high", "medium", "low", "unknown"} |->
        CASE x = "high" -> 3 [] x = "medium" -> 2 [] x = "low" -> 1
          [] x = "unknown" -> 0]

\* the severity of the first element, whatever its rank
HighestSeverity_First(severities) == severities[1]

\* max(severities, key=lambda x: severity_rank.get(x, 0)): the first
\* element of highest rank
HighestSeverity(severities) ==
    LET Rank(x) == Get(severity_rank, x, 0)
        i == CHOOSE k \in 1..Len(severities) :
                 /\ \A j \in 1..Len(severities) :
                        Rank(severities[j]) <= Rank(severities[k])
                 /\ \A j \in 1..(k - 1) :
                        Rank(severities[j]) < Rank(severities[k])
    IN  severities[i]

\* the concatenation of the sequences of a sequence
RECURSIVE Flatten(_)
Flatten(ss) == IF ss = <<>> THEN <<>> ELSE Head(ss) \o Flatten(Tail(ss))

\* the greatest element of a non-empty sequence of numbers
SeqMax(s) == CHOOSE x \in Range(s) : \A y \in Range(s) : y <= x

RECURSIVE SumSeq(_)
SumSeq(s) == IF s = <<>> THEN 0 ELSE Head(s) + SumSeq(Tail(s))

\* list(S) for a set S of strings: its elements in the iteration order
\* of this run, given as a sequence holding every string once
ListOfSet(S, order) == SelectSeq(order, LAMBDA x : x \in S)

\* _combine_locations(locations_lists, combined_text)
CombineLocations(cache, locations_lists, combined_text, order, oc) ==
    LET all_locations == UNION {Range(locations_lists[k]) :
                                   k \in 1..Len(locations_lists)}
    IN  DeterminePrimaryLocation(cache, combined_text,
                                 ListOfSet(all_locations, order), oc)

\* The result of one operator is handed to the next through a singleton
\* set (\E r \in {e} or {f(r) : r \in {e}}), which names its value once.
TheOne(S) == CHOOSE x \in S : TRUE

\* lines 171-194: the loop over the clusters from position k on.  Each
\* call of _combine_locations builds a set of its own, so name_orders
\* holds one iteration order for each cluster.
RECURSIVE Pass1Merge(_, _, _, _, _, _, _, _)
Pass1Merge(df, clusters, k, name_orders, oc, cache, initial_combined, events) ==
    IF k > Len(clusters)
    THEN [initial_combined |-> initial_combined, cache |-> cache,
          events |-> events]
    ELSE
      LET cluster_indices == clusters[k][2]
          cluster_data == [n \in 1..Len(cluster_indices) |-> df[cluster_indices[n]]]
          Column(f) == [n \in 1..Len(cluster_data) |-> cluster_data[n][f]]
          combined_text == Flatten(Column("text"))
          combined_disaster(primary_location) ==
              [disaster_type |-> MostCommonValue(Column("disaster_type")),
               severity |-> HighestSeverity(Column("severity")),
               location |-> primary_location,
               published_at |-> SeqMax(Column("published_at")),
               urls |-> Column("url"),
               text |-> combined_text,
               article_count |-> Len(cluster_indices)]
      IN  TheOne({Pass1Merge(df, clusters, k + 1, name_orders, oc, r.cache,
                             Append(initial_combined,
                                    combined_disaster(r.result)),
                             events \o r.events) :
                    r \in {CombineLocations(cache, Column("locations"),
                                            combined_text, name_orders[k],
                                            oc)}})

\* the scan with the event compared with the last member of each group
RECURSIVE ScanGroups_LastMember(_, _, _, _, _, _, _)
ScanGroups_LastMember(initial_combined, i, groups, g, oc, cache, events) ==
    IF g > Len(groups) THEN [found |-> 0, cache |-> cache, events |-> events]
    ELSE
      LET loc_key == groups[g][2][Len(groups[g][2])]
      IN  TheOne({IF r.result
                  THEN [found |-> g, cache |-> r.cache,
                        events |-> events \o r.events]
                  ELSE ScanGroups_LastMember(initial_combined, i, groups,
                                             g + 1, oc, r.cache,
                                             events \o r.events) :
                    r \in {AreLocationsSame(cache,
                               initial_combined[i].location,
                               initial_combined[loc_key].location, oc)}})

\* lines 204-211: the scan of the group keys from position g on for the
\* event at position i; found is the position of the first group whose
\* representative's location is the same, or 0
RECURSIVE ScanGroups(_, _, _, _, _, _, _)
ScanGroups(initial_combined, i, groups, g, oc, cache, events) ==
    IF g > Len(groups) THEN [found |-> 0, cache |-> cache, events |-> events]
    ELSE
      LET loc_key == groups[g][1]
      IN  TheOne({IF r.result
                  THEN [found |-> g, cache |-> r.cache,
                        events |-> events \o r.events]
                  ELSE ScanGroups(initial_combined, i, groups, g + 1, oc,
                                  r.cache, events \o r.events) :
                    r \in {AreLocationsSame(cache,
                               initial_combined[i].location,
                               initial_combined[loc_key].location, oc)}})

\* lines 200-215: the loop over the pass-1 events from position i on;
\* groups is location_clusters as a sequence of <<key, members>>
RECURSIVE Pass2(_, _, _, _, _, _)
Pass2(initial_combined, i, groups, oc, cache, events) ==
    IF i > Len(initial_combined)
    THEN [groups |-> groups, cache |-> cache, events |-> events]
    ELSE
      TheOne({Pass2(initial_combined, i + 1,
                    IF r.found = 0 THEN Append(groups, <<i, <<i>>>>)
                    ELSE [groups EXCEPT ![r.found] =
                             <<groups[r.found][1],
                               Append(groups[r.found][2], i)>>],
                    oc, r.cache, r.events) :
                r \in {ScanGroups(initial_combined, i, groups, 1, oc, cache,
                                  events)}})

\* the merge without the early return for one entry: article_count is
\* set to the number of entries
MergeDisasterData_Recount(disasters, type_order) ==
    [disasters[1] EXCEPT !.article_count = Len(disasters)]

\* the merge with the type of the first entry kept
MergeDisasterData_FirstType(disasters, type_order) ==
    IF Len(disasters) = 1 THEN disasters[1]
    ELSE
      LET Column(f) == [n \in 1..Len(disasters) |-> disasters[n][f]]
      IN  [disasters[1] EXCEPT
              !.article_count = SumSeq(Column("article_count")),
              !.urls = Range(Flatten(Column("urls"))),
              !.published_at = SeqMax(Column("published_at")),
              !.text = Flatten(Column("text")),
              !.severity = HighestSeverity(Column("severity"))]

\* the first entry as it is, its article_count not summed
MergeDisasterData_FirstCount(disasters, type_order) == disasters[1]

\* _merge_disaster_data(disasters).  list(set(all_urls)) is kept as the
\* set; type_order is the iteration order of set(disaster_types).
MergeDisasterData(disasters, type_order) ==
    IF Len(disasters) = 1 THEN disasters[1]
    ELSE
      LET Column(f) == [n \in 1..Len(disasters) |-> disasters[n][f]]
          disaster_types ==
              SelectSeq(Column("disaster_type"), LAMBDA x : x # "unknown")
          Best == {x \in Range(disaster_types) :
                      \A y \in Range(disaster_types) :
                          Occurrences(disaster_types, y)
                              <= Occurrences(disaster_types, x)}
      IN  [disasters[1] EXCEPT
              !.article_count = SumSeq(Column("article_count")),
              !.urls = Range(Flatten(Column("urls"))),
              !.published_at = SeqMax(Column("published_at")),
              !.text = Flatten(Column("text")),
              !.severity = HighestSeverity(Column("severity")),
              !.disaster_type =
                  IF disaster_types # <<>>
                  THEN Head(ListOfSet(Best, type_order))
                  ELSE disasters[1].disaster_type]

\* lines 138-139: pd.DataFrame([]) has no 'text' column, and
\* fit_transform (line 20) raises "empty vocabulary"
RaisesBeforePasses(df) ==
    df = <<>> \/ \A i \in 1..Len(df) : ~HasVocabulary(df[i].text)

\* lines 141-215: the clusters of pass 1, their combined events and the
\* groups of pass 2
CombinePasses(cache, df, sim, name_orders, oc) ==
    TheOne({TheOne({TheOne({
        [clusters |-> clusters,
         initial_combined |-> p1.initial_combined,
         location_clusters |-> p2.groups,
         cache |-> p2.cache, events |-> p2.events] :
        p2 \in {Pass2(p1.initial_combined, 1, <<>>, oc, p1.cache,
                      p1.events)}}) :
        p1 \in {Pass1Merge(df, clusters, 1, name_orders, oc, cache,
                           <<>>, <<>>)}}) :
        clusters \in {Pass1(df, sim, 1, <<>>, {})}})

\* line 221: disasters_to_merge of the pass-2 group at position g
DisastersToMerge(initial_combined, location_clusters, g) ==
    [n \in 1..Len(location_clusters[g][2]) |->
        initial_combined[location_clusters[g][2][n]]]

\* combine_duplicate_disasters(df): sim is what
\* _calculate_text_similarity returns, oc the geocoder's outcomes,
\* name_orders the iteration order of all_locations for each pass-1
\* cluster and type_orders that of set(disaster_types) for each pass-2
\* group
CombineDuplicateDisasters(cache, df, sim, name_orders, type_orders, oc) ==
    IF RaisesBeforePasses(df)
    THEN \* line 138: pd.DataFrame([]) has no 'text' column;
         \* line 20: fit_transform raises "empty vocabulary"
         [status |-> IF df = <<>> THEN "KeyError" ELSE "ValueError",
          similarity_matrix |-> sim,
          clusters |-> <<>>, initial_combined |-> <<>>,
          location_clusters |-> <<>>, final |-> <<>>, cache |-> cache,
          events |-> <<>>]
    ELSE
      LET final_combined(initial_combined, location_clusters) ==
              [g \in 1..Len(location_clusters) |->
                  MergeDisasterData(
                      DisastersToMerge(initial_combined, location_clusters, g),
                      type_orders[g])]
      IN  TheOne({
              [status |-> "ok", similarity_matrix |-> sim,
               clusters |-> p.clusters,
               initial_combined |-> p.initial_combined,
               location_clusters |-> p.location_clusters,
               final |-> final_combined(p.initial_combined,
                                        p.location_clusters),
               cache |-> p.cache, events |-> p.events] :
              p \in {CombinePasses(cache, df, sim, name_orders, oc)}})

(***************************************************************************)
(* The deduplicator and its caller.  main_pipeline.py builds the DataFrame *)
(* of reports and hands it to a fresh DisasterDeduplicator.                *)
(***************************************************************************)
Chars(w) == [i \in 1..Len(w) |-> SubSeq(w, i, i)]

Report(text, ty, sv, locations, at, url) ==
    [text |-> text, disaster_type |-> ty, severity |-> sv,
     locations |-> locations, published_at |-> at, url |-> url]

\* the rows the caller can put in the DataFrame
ReportPool ==
    {Report(<<Chars("hit"), <<"b">>>>, "flood", "low", <<<<"b">>>>, 0, "u1"),
     Report(<<Chars("quake"), <<".">>, <<"a">>>>, "earthquake", "high",
            <<<<"a">>, <<"b">>>>, 73, "u2"),
     Report(<<>>, NaN, "extreme", <<>>, 0, "u3"),
     Report(<<Chars("struck"), Chars("bb")>>, "flood", "unknown",
            <<Chars("bb")>>, 24, "u1")}

\* the sequences that hold every element of S once
Orders(S) ==
    {o \in [1..Cardinality(S) -> S] :
        \A i \in 1..Len(o), j \in 1..Len(o) : o[i] = o[j] => i = j}

\* the sequences that take their entry at each position k from sets[k]
RECURSIVE ProductOf(_)
ProductOf(sets) ==
    IF sets = <<>> THEN {<<>>}
    ELSE {<<x>> \o rest : x \in Head(sets), rest \in ProductOf(Tail(sets))}

\* the place names in the rows
NamesOf(rows) == UNION {Range(rows[i].locations) : i \in 1..Len(rows)}

\* lines 117-122: all_locations of the cluster with these row indices
AllLocations(df, cluster_indices) ==
    UNION {Range(df[cluster_indices[n]].locations) :
              n \in 1..Len(cluster_indices)}

\* line 127: an iteration order of all_locations for each pass-1 cluster
NameOrderChoices(df, sim) ==
    IF RaisesBeforePasses(df) THEN {<<>>}
    ELSE TheOne({ProductOf([k \in 1..Len(clusters) |->
                              Orders(AllLocations(df, clusters[k][2]))]) :
                    clusters \in {Pass1(df, sim, 1, <<>>, {})}})

\* line 97: set(disaster_types), built when the group has several members
\* and one of them a known type
SetOfDisasterTypes(disasters) ==
    IF Len(disasters) = 1 THEN {}
    ELSE {disasters[n].disaster_type : n \in 1..Len(disasters)} \ {"unknown"}

\* line 97: an iteration order of set(disaster_types) for each pass-2 group
TypeOrderChoices(cache, df, sim, name_orders, oc) ==
    IF RaisesBeforePasses(df) THEN {<<>>}
    ELSE TheOne({ProductOf([g \in 1..Len(p.location_clusters) |->
                              Orders(SetOfDisasterTypes(
                                  DisastersToMerge(p.initial_combined,
                                                   p.location_clusters, g)))]) :
                    p \in {CombinePasses(cache, df, sim, name_orders, oc)}})

\* the geocoder answers, or times out for one of the names it may be
\* asked during the call
DedupOutcomeChoices(Q) ==
    {oc \in OutcomeChoices(Q) :
        /\ \A q \in Q : oc[q] # "error"
        /\ \A q1 \in Q, q2 \in Q :
               (oc[q1] = "timeout" /\ oc[q2] = "timeout") => q1 = q2}

NoDedup ==
    [status |-> "none", similarity_matrix |-> <<>>, clusters |-> <<>>,
     initial_combined |-> <<>>, location_clusters |-> <<>>, final |-> <<>>,
     cache |-> EmptyDict, events |-> <<>>]

\* no group is being merged
NoMerge == [status |-> "none"]

InitDedup ==
    /\ results_df = <<>>
    /\ dedup = NoDedup
    /\ disasters_to_merge = <<>>
    /\ merged_disaster = NoMerge

\* the caller adds a row to the DataFrame
AppendReport ==
    /\ dedup.status = "none"
    /\ Len(results_df) < MaxReports
    /\ \E row \in ReportPool : results_df' = Append(results_df, row)
    /\ UNCHANGED <<dedup, mergeVars, allocVars, geoVars>>

\* combine_duplicate_disasters(results_df)
CallCombineDuplicateDisasters ==
    /\ dedup.status = "none"
    /\ \E sim \in SimMatrices(results_df),
          oc \in DedupOutcomeChoices(NamesOf(results_df)) :
        \E name_orders \in NameOrderChoices(results_df, sim) :
        \E type_orders \in TypeOrderChoices(location_cache, results_df, sim,
                                             name_orders, oc) :
        \E r \in {CombineDuplicateDisasters(location_cache, results_df, sim,
                                             name_orders, type_orders, oc)} :
            /\ dedup' = r
            /\ location_cache' = r.cache
            /\ geo_calls' = Record(geo_calls, r.events)
    /\ UNCHANGED <<results_df, mergeVars, last, allocVars>>

\* lines 72-81 of main_pipeline.py: the disaster_data built from one row
\* of unique_disasters_df
DisasterData(disaster) ==
    [k \in EventKeys \cup {"urban_rural", "location"} |->
        CASE k = "disaster_type" -> disaster.disaster_type
          [] k = "severity" -> disaster.severity
          [] k = "population_density" -> 1000
          [] k = "urban_rural" -> "mixed"
          [] k = "infrastructure_damage" -> "moderate"
          [] k = "accessibility" -> "moderate"
          [] k = "time_since_disaster" -> 1
          [] k = "location" -> disaster.location]

\* lines 70-82 of main_pipeline.py: one turn of the loop over the rows of
\* unique_disasters_df, which appends the disaster_data of the next row
AppendDisasterData ==
    /\ dedup.status = "ok"
    /\ allocations = NoCall
    /\ Len(disaster_list) < Len(dedup.final)
    /\ disaster_list =
           [i \in 1..Len(disaster_list) |-> DisasterData(dedup.final[i])]
    /\ disaster_list' =
           Append(disaster_list,
                  DisasterData(dedup.final[Len(disaster_list) + 1]))
    /\ UNCHANGED <<buffer_percentage, current_supplies, allocations, geoVars, dedupVars>>

\* the next run_pipeline(): main() starts it whatever the last run did,
\* and the except clause of lines 93-95 can have ended that run at any
\* line.  Lines 27-32 build new components, a ReliefSupplyManager() with
\* the default buffer_percentage and inventory and a DisasterDeduplicator()
\* with a new LocationAnalyzer and an empty location_cache; processed_data
\* (line 38) and the disaster_list (line 70) start empty.
NewRun ==
    /\ buffer_percentage' = 20
    /\ current_supplies' = DefaultSupplies
    /\ disaster_list' = <<>>
    /\ allocations' = NoCall
    /\ location_cache' = EmptyDict
    /\ geo_calls' = EmptyDict
    /\ last' = NoLast
    /\ results_df' = <<>>
    /\ dedup' = NoDedup
    /\ disasters_to_merge' = <<>>
    /\ merged_disaster' = NoMerge

NextManager == SetCurrentSupplies \/ AppendDisaster \/ AllocateSupplies \/ NewRun

NextSelection == AppendTiedDisaster \/ AllocateSupplies \/ NewRun

NextDedup == AppendReport \/ CallCombineDuplicateDisasters \/ NewRun

\* run_pipeline(): the reports, the deduplication, the disaster_list built
\* from its result, the allocation
NextPipeline ==
    \/ AppendReport
    \/ CallCombineDuplicateDisasters
    \/ AppendDisasterData
    \/ AllocateSupplies
    \/ NewRun

(***************************************************************************)
(* _merge_disaster_data on the pass-1 events of one pass-2 group           *)
(***************************************************************************)
\* a combined_disaster as lines 184-192 build it
Combined(ty, sv, location, at, urls, text, n) ==
    [disaster_type |-> ty, severity |-> sv, location |-> location,
     published_at |-> at, urls |-> urls, text |-> text, article_count |-> n]

\* pass-1 events of one place: a flood, an earthquake made of two reports,
\* two events whose reports had no disaster type, one of them with a
\* severity that is not in the rank table, and a second flood
CombinedPool ==
    {Combined("flood", "low", <<"b">>, 0, <<"u1">>, <<Chars("hit"), <<"b">>>>, 1),
     Combined("earthquake", "high", <<"b">>, 73, <<"u2", "u1">>,
              <<Chars("quake"), <<".">>, <<"a">>>>, 2),
     Combined("unknown", "unknown", <<"b">>, 0, <<"u3">>, <<Chars("storm")>>, 1),
     Combined("unknown", "extreme", <<"b", "b">>, 24, <<"u4">>,
              <<Chars("struck"), Chars("bb")>>, 1),
     Combined("flood", "medium", <<"b", "b">>, 24, <<"u1">>,
              <<Chars("struck"), Chars("bb")>>, 1)}

\* line 221: disasters_to_merge gets the next member of the group
AppendMember ==
    /\ merged_disaster = NoMerge
    /\ Len(disasters_to_merge) < MaxMerged
    /\ \E d \in CombinedPool :
           disasters_to_merge' = Append(disasters_to_merge, d)
    /\ UNCHANGED <<merged_disaster, results_df, dedup, allocVars, geoVars>>

\* line 222: merged_disaster = self._merge_disaster_data(disasters_to_merge)
CallMergeDisasterData ==
    /\ merged_disaster = NoMerge
    /\ disasters_to_merge # <<>>
    /\ \E type_order \in Orders({"earthquake", "flood"}) :
           merged_disaster' =
               [status |-> "ok",
                merged |-> MergeDisasterData(disasters_to_merge, type_order)]
    /\ UNCHANGED <<disasters_to_merge, results_df, dedup, allocVars, geoVars>>

\* the loop of line 220 goes on to the next group
NextGroup ==
    /\ merged_disaster # NoMerge
    /\ disasters_to_merge' = <<>>
    /\ merged_disaster' = NoMerge
    /\ UNCHANGED <<results_df, dedup, allocVars, geoVars>>

NextMerge == AppendMember \/ CallMergeDisasterData \/ NextGroup

(***************************************************************************)
(* Specifications                                                          *)
(***************************************************************************)
Init == InitManager /\ InitGeo /\ InitDedup

Next == NextManager \/ NextGeo \/ NextDedup \/ NextMerge \/ NextPipeline

\* the whole program
Spec == Init /\ [][Next]_vars

\* the relief supply manager alone
SpecManager == Init /\ [][NextManager]_vars

\* the location analyzer alone, beside a manager built with the default
\* buffer_percentage=20
InitDefault == Init /\ buffer_percentage = 20

SpecGeo == InitDefault /\ [][NextGeo]_vars

\* the manager handed lists longer than the five it selects
SpecSelection == InitDefault /\ [][NextSelection]_vars

\* the deduplicator alone, beside a manager built with the default
\* buffer_percentage=20
SpecDedup == InitDefault /\ [][NextDedup]_vars

\* the final merge alone, on the groups pass 2 can hand it
SpecMerge == InitDefault /\ [][NextMerge]_vars

\* the pipeline alone: its manager is never handed another inventory or
\* another caller's list
SpecPipeline == InitDefault /\ [][NextPipeline]_vars

(***************************************************************************)
(* Properties of the deduplicator                                          *)
(***************************************************************************)
\* the reports of the pass-1 cluster at position k
Members(k) == Range(dedup.clusters[k][2])

\* the reports merged into the returned event at position g
Contributors(g) ==
    UNION {Members(dedup.location_clusters[g][2][n]) :
              n \in 1..Len(dedup.location_clusters[g][2])}

\* C3: every event combine_duplicate_disasters returns has article_count
\* equal to the number of original reports merged into it through both
\* passes; every report is merged into exactly one event, so the
\* article_count values sum to N.
C3_ArticleCountConserved ==
    dedup.status = "ok" =>
        /\ \A g \in 1..Len(dedup.final) :
               dedup.final[g].article_count = Cardinality(Contributors(g))
        /\ \A i \in 1..Len(results_df) :
               Cardinality({g \in 1..Len(dedup.final) : i \in Contributors(g)})
                   = 1
        /\ SumSeq([g \in 1..Len(dedup.final) |-> dedup.final[g].article_count])
               = Len(results_df)

\* three reports came back as one event: two were clustered in pass 1 and
\* the third was merged with them in pass 2
C3_Witness ==
    /\ dedup.status = "ok"
    /\ Len(results_df) = 3
    /\ Len(dedup.clusters) = 2
    /\ Len(dedup.final) = 1
    /\ dedup.final[1].article_count = 3

\* the reports assigned to a cluster before the cluster at position k
AssignedBefore(k) == UNION {Members(n) : n \in 1..(k - 1)}

\* C4: the cluster seeded by i holds i and exactly the reports j > i that
\* were unassigned when i was processed, whose similarity to i is at least
\* the threshold and whose day difference to i is within the window; a
\* report similar only to a non-seed member is not in it.
C4_PassOneSeedOnly ==
    dedup.status = "ok" =>
        \A k \in 1..Len(dedup.clusters) :
            LET i == dedup.clusters[k][1]
            IN  /\ i \notin AssignedBefore(k)
                /\ Members(k) =
                     {i} \cup
                     {j \in (i + 1)..Len(results_df) :
                         /\ j \notin AssignedBefore(k)
                         /\ dedup.similarity_matrix[<<i, j>>]
                                >= similarity_threshold
                         /\ Abs((results_df[j].published_at
                                   - results_df[i].published_at) \div 24)
                                <= time_window_days}
                /\ Len(dedup.clusters[k][2]) = Cardinality(Members(k))

\* report 3 is similar and close in time to report 2, a non-seed member
\* of the cluster seeded by report 1, but not similar to report 1: it is
\* not in that cluster
C4_Witness ==
    /\ dedup.status = "ok"
    /\ Len(results_df) = 3
    /\ Members(1) = {1, 2}
    /\ dedup.similarity_matrix[<<2, 3>>] >= similarity_threshold
    /\ Abs((results_df[3].published_at - results_df[2].published_at) \div 24)
           <= time_window_days
    /\ dedup.similarity_matrix[<<1, 3>>] < similarity_threshold

\* C8: combine_duplicate_disasters called with zero reports returns an
\* empty event collection and raises no error.
C8_EmptyInputReturnsEmpty ==
    (dedup.status # "none" /\ results_df = <<>>) =>
        (dedup.status = "ok" /\ dedup.final = <<>>)

\* C15: _merge_disaster_data on a list of exactly one event returns that
\* event with every field unchanged: a pass-2 group of one member comes
\* out of the final merge as the pass-1 event it holds.
C15_SingleMemberUnchanged ==
    dedup.status = "ok" =>
        \A g \in 1..Len(dedup.location_clusters) :
            Len(dedup.location_clusters[g][2]) = 1 =>
                /\ dedup.final[g] =
                       dedup.initial_combined[dedup.location_clusters[g][2][1]]
                /\ dedup.final[g] =
                       MergeDisasterData(<<dedup.final[g]>>, <<>>)

\* a pass-1 event made of two reports is alone in its pass-2 group, next
\* to another group, and comes out with article_count 2
C15_Witness ==
    /\ dedup.status = "ok"
    /\ Len(dedup.final) = 2
    /\ \E g \in 1..2 :
           /\ Len(dedup.location_clusters[g][2]) = 1
           /\ dedup.final[g].article_count = 2
           /\ Len(dedup.final[g].urls) = 2

\* a row with the timestamp of row and every other column changed
OtherRow(row) ==
    Report(<<>>, IF row.disaster_type = "flood" THEN "earthquake" ELSE "flood",
           "unknown", <<>>, row.published_at, "other")

\* DataFrames that agree with rows on length and on published_at: any of
\* the rows replaced by its OtherRow
SameTimestamps(rows) ==
    {[i \in 1..Len(rows) |-> IF i \in S THEN OtherRow(rows[i]) ELSE rows[i]] :
        S \in SUBSET (1..Len(rows))}

\* C16: the pass-1 clusters (keys and member lists) are a function of the
\* similarity matrix, the timestamps in row order, the threshold and the
\* window: any DataFrame with the same timestamps, whatever its other
\* columns, gives with the same similarity matrix the clusters this call
\* computed.
C16_PassOneDependsOnSimAndTime ==
    dedup.status = "ok" =>
        \A d \in SameTimestamps(results_df) :
            Pass1(d, dedup.similarity_matrix, 1, <<>>, {}) = dedup.clusters

\* three reports, two of them of different disaster types clustered
\* together in pass 1
C16_Witness ==
    /\ dedup.status = "ok"
    /\ Len(results_df) = 3
    /\ \E k \in 1..Len(dedup.clusters) :
           /\ Len(dedup.clusters[k][2]) = 2
           /\ results_df[dedup.clusters[k][2][1]].disaster_type
                  # results_df[dedup.clusters[k][2][2]].disaster_type

\* C17: the pass-1 time-window test gives the same outcome whichever of
\* the two reports is the earlier one: a report j that is similar enough
\* to the seed i and still unassigned is in the cluster of i exactly when
\* the test with the two timestamps exchanged passes.
C17_WindowTestSymmetric ==
    dedup.status = "ok" =>
        \A k \in 1..Len(dedup.clusters) :
            LET i == dedup.clusters[k][1]
            IN  \A j \in (i + 1)..Len(results_df) :
                    (/\ j \notin AssignedBefore(k)
                     /\ dedup.similarity_matrix[<<i, j>>]
                            >= similarity_threshold)
                    => (j \in Members(k)
                          <=> DaysDiff(results_df[j].published_at,
                                       results_df[i].published_at)
                                  <= time_window_days)

\* the first position of seq s holding x
FirstIndex(s, x) == CHOOSE i \in 1..Len(s) : s[i] = x /\ \A j \in 1..(i - 1) : s[j] # x

\* C19: the disaster_type of a pass-1 event is a most frequent non-null
\* disaster_type of the cluster's members; among several most frequent
\* values it is the one met first in member order; it is 'unknown' when
\* every member's type is null.
C19_MostCommonFirstEncountered ==
    dedup.status = "ok" =>
        \A k \in 1..Len(dedup.clusters) :
            LET members == dedup.clusters[k][2]
                types == SelectSeq([n \in 1..Len(members) |->
                                       results_df[members[n]].disaster_type],
                                   LAMBDA x : x # NaN)
                chosen == dedup.initial_combined[k].disaster_type
            IN  IF types = <<>> THEN chosen = "unknown"
                ELSE /\ chosen \in Range(types)
                     /\ \A y \in Range(types) :
                            /\ Occurrences(types, y) <= Occurrences(types, chosen)
                            /\ Occurrences(types, y) = Occurrences(types, chosen)
                                 => FirstIndex(types, chosen) <= FirstIndex(types, y)

\* what _are_locations_same answers for the locations of the pass-1
\* events i and j once the call has filled the cache (no lookup of the
\* call is repeated: a name not in the cache is not resolved)
SameLocation(i, j) ==
    AreLocationsSame(dedup.cache, dedup.initial_combined[i].location,
                     dedup.initial_combined[j].location,
                     [q \in NamesOf(results_df) |-> "timeout"]).result

\* the position of the pass-2 group that holds the pass-1 event i
GroupOf(i) ==
    CHOOSE g \in 1..Len(dedup.location_clusters) :
        i \in Range(dedup.location_clusters[g][2])

\* C20: pass 2 scans the pass-1 events in order; each goes to the first
\* group, in creation order, whose representative's location matches its
\* own, and opens a group keyed by its own position when no
\* representative matches; members other than the representative are
\* never compared with.
C20_FirstMatchingRepresentative ==
    dedup.status = "ok" =>
        LET groups == dedup.location_clusters
            n == Len(dedup.initial_combined)
        IN  /\ \A i \in 1..n :
                   Cardinality({g \in 1..Len(groups) :
                                   i \in Range(groups[g][2])}) = 1
            /\ \A g \in 1..Len(groups) :
                   /\ groups[g][2][1] = groups[g][1]
                   /\ \A m \in 1..(Len(groups[g][2]) - 1) :
                          groups[g][2][m] < groups[g][2][m + 1]
                   /\ g < Len(groups) => groups[g][1] < groups[g + 1][1]
            /\ \A i \in 1..n :
                   LET Earlier == {g \in 1..Len(groups) : groups[g][1] < i}
                       Matching == {g \in Earlier : SameLocation(i, groups[g][1])}
                   IN  IF Matching = {}
                       THEN groups[GroupOf(i)][1] = i
                       ELSE /\ GroupOf(i) \in Matching
                            /\ \A g \in Matching : GroupOf(i) <= g

\* the third event's location matches that of the second, a member of the
\* first group, but not that of the first, the group's representative: it
\* opened a group of its own
C20_Witness ==
    /\ dedup.status = "ok"
    /\ dedup.location_clusters = << <<1, <<1, 2>>>>, <<3, <<3>>>> >>
    /\ SameLocation(3, 2)
    /\ ~SameLocation(3, 1)

\* the elements of seq s in order of first appearance, each once
RECURSIVE FirstAppearance(_)
FirstAppearance(s) ==
    IF s = <<>> THEN <<>>
    ELSE LET rest == FirstAppearance(SubSeq(s, 1, Len(s) - 1))
         IN  IF s[Len(s)] \in Range(rest) THEN rest
             ELSE Append(rest, s[Len(s)])

\* the place names of the members of the pass-1 cluster at position k, in
\* order of first appearance
MemberLocations(k) ==
    FirstAppearance(Flatten([n \in 1..Len(dedup.clusters[k][2]) |->
                                results_df[dedup.clusters[k][2][n]].locations]))

\* the score determine_primary_location gave the candidate loc of the
\* cluster at position k (every candidate was looked up and is cached)
CandidateScore(k, loc) ==
    LocationScore(dedup.initial_combined[k].text, loc,
                  Get(dedup.cache, loc, NoInfo))

\* C21: determine_primary_location with two or more candidates returns a
\* candidate of maximal score and, among several of maximal score, the one
\* met first in the candidate sequence; for a pass-1 cluster that sequence
\* is the members' location lists joined, in order of first appearance.
C21_MaxScoreFirstAppearance ==
    dedup.status = "ok" =>
        \A k \in 1..Len(dedup.clusters) :
            LET c == MemberLocations(k)
                chosen == dedup.initial_combined[k].location
            IN  Len(c) >= 2 =>
                    /\ chosen \in Range(c)
                    /\ \A y \in Range(c) :
                           /\ CandidateScore(k, y) <= CandidateScore(k, chosen)
                           /\ CandidateScore(k, y) = CandidateScore(k, chosen)
                                => FirstIndex(c, chosen) <= FirstIndex(c, y)

\* the disaster types of the members handed to the last merge that are
\* not 'unknown'
KnownTypes ==
    SelectSeq([n \in 1..Len(disasters_to_merge) |->
                  disasters_to_merge[n].disaster_type],
              LAMBDA x : x # "unknown")

\* C22: for a pass-2 group with more than one member, the merged
\* disaster_type is a most frequent value among the members' types that
\* are not 'unknown'; when every member's type is 'unknown' the merged
\* type is 'unknown'.
C22_MergedTypeMostFrequent ==
    (merged_disaster.status = "ok" /\ Len(disasters_to_merge) > 1) =>
        LET chosen == merged_disaster.merged.disaster_type
        IN  IF KnownTypes = <<>> THEN chosen = "unknown"
            ELSE /\ chosen \in Range(KnownTypes)
                 /\ \A y \in Range(KnownTypes) :
                        Occurrences(KnownTypes, y)
                            <= Occurrences(KnownTypes, chosen)

\* a group of an earthquake and two different floods, the earthquake
\* first, came out as a flood
C22_Witness ==
    /\ merged_disaster.status = "ok"
    /\ Len(disasters_to_merge) = 3
    /\ disasters_to_merge[1].disaster_type = "earthquake"
    /\ disasters_to_merge[2].disaster_type = "flood"
    /\ disasters_to_merge[3].disaster_type = "flood"
    /\ disasters_to_merge[2] # disasters_to_merge[3]
    /\ merged_disaster.merged.disaster_type = "flood"

\* the rank of a severity: unknown 0, low 1, medium 2, high 3, any other
\* value 0
RankOf(x) ==
    CASE x = "low" -> 1 [] x = "medium" -> 2 [] x = "high" -> 3 [] OTHER -> 0

\* C23: the severity of every returned event is the severity of one of
\* the original reports merged into it through pass 1 and pass 2, and no
\* report merged into it has a severity of higher rank, under
\* unknown(0) < low(1) < medium(2) < high(3) with other values ranked 0.
C23_SeverityMaxAcrossPasses ==
    dedup.status = "ok" =>
        \A g \in 1..Len(dedup.final) :
            LET Severities == {results_df[i].severity : i \in Contributors(g)}
            IN  /\ dedup.final[g].severity \in Severities
                /\ \A x \in Severities :
                       RankOf(x) <= RankOf(dedup.final[g].severity)

\* three reports of severities unknown, low and high, the high one last,
\* came back as one event of severity high: two were clustered in pass 1
\* and merged with the third in pass 2
C23_Witness ==
    /\ dedup.status = "ok"
    /\ Len(results_df) = 3
    /\ Len(dedup.clusters) = 2
    /\ Len(dedup.final) = 1
    /\ results_df[1].severity = "unknown"
    /\ results_df[2].severity = "low"
    /\ results_df[3].severity = "high"
    /\ dedup.final[1].severity = "high"

\* C27: after pass 1 on N reports every index belongs to exactly one
\* cluster, no cluster is empty, the keys are distinct, and the key of a
\* cluster is its seed, the first and least of its members.
C27_PassOnePartition ==
    dedup.status = "ok" =>
        /\ \A i \in 1..Len(results_df) :
               Cardinality({k \in 1..Len(dedup.clusters) : i \in Members(k)}) = 1
        /\ \A k \in 1..Len(dedup.clusters) :
               LET key == dedup.clusters[k][1]
                   members == dedup.clusters[k][2]
               IN  /\ members # <<>>
                   /\ Members(k) \subseteq 1..Len(results_df)
                   /\ Len(members) = Cardinality(Members(k))
                   /\ key = members[1]
                   /\ \A j \in Members(k) : key <= j
                   /\ \A n \in 1..Len(dedup.clusters) :
                          dedup.clusters[n][1] = key => n = k

\* three reports in two clusters: the first seeded a cluster that the
\* third joined, the second, similar to the third, is alone
C27_Witness ==
    /\ dedup.status = "ok"
    /\ dedup.clusters = << <<1, <<1, 3>>>>, <<2, <<2>>>> >>
    /\ dedup.similarity_matrix[<<2, 3>>] >= similarity_threshold
    /\ DaysDiff(results_df[2].published_at, results_df[3].published_at)
           <= time_window_days

\* C28: a pass-1 event whose location is absent or empty is alone in its
\* pass-2 group, which it opened itself: it joined no group and no later
\* event joined its group, so two events without a location stay apart
\* and come back as two events.
C28_NoLocationNeverMerged ==
    dedup.status = "ok" =>
        \A i \in 1..Len(dedup.initial_combined) :
            Falsy(dedup.initial_combined[i].location) =>
                /\ \E g \in 1..Len(dedup.location_clusters) :
                       dedup.location_clusters[g] = <<i, <<i>>>>
                /\ \A g \in 1..Len(dedup.location_clusters) :
                       i \in Range(dedup.location_clusters[g][2]) =>
                           /\ Len(dedup.location_clusters[g][2]) = 1
                           /\ dedup.final[g] = dedup.initial_combined[i]

\* two reports without a location and equal in every field came back as
\* two events, next to a third report that has a location
C28_Witness ==
    /\ dedup.status = "ok"
    /\ Len(dedup.initial_combined) = 3
    /\ Len(dedup.final) = 3
    /\ \E i \in 1..3, j \in 1..3 :
           /\ i < j
           /\ dedup.initial_combined[i].location = None
           /\ dedup.initial_combined[j] = dedup.initial_combined[i]
    /\ \E i \in 1..3 : ~Falsy(dedup.initial_combined[i].location)

====
